---- MODULE Spec2Model ----
(***************************************************************************)
(* Verification model of the agentsight collector framework: the analyzer  *)
(* chain TimestampNormalizer -> SSLFilter -> SSEProcessor -> HTTPParser -> *)
(* HTTPFilter -> AuthHeaderRemover that main.rs attaches to the SSL        *)
(* runner, the filter expression languages of the two filters, and the     *)
(* filter metrics that the SIGINT handler prints; the FileLogger with its   *)
(* log rotation, the AgentRunner that merges the streams of its child      *)
(* runners, the stream of the binary executor, and the SystemRunner that   *)
(* samples /proc.                                                          *)
(*                                                                         *)
(* Representation of data:                                                 *)
(*  - An Event is a record [timestamp, source, pid, comm, data].           *)
(*  - The string data.data of an SSL Event is the sequence of its lines,   *)
(*    i.e. the result of split("\r\n"), which is the granularity at which  *)
(*    clean_chunked_content and parse_http_message read it.  A line is a   *)
(*    record tagged by "kind": a hex chunk-size line, a line of SSE blocks *)
(*    (each block terminated by a blank line "\n\n"), a request line, a    *)
(*    status line, a header line, an empty line, or binary garbage.        *)
(*  - A text buffer is the sequence of the string pieces appended to it;   *)
(*    StrLen gives its length in bytes.                                    *)
(*  - Timestamps are counted in thousands (TLC integers are 32 bit): an    *)
(*    Event timestamp n stands for 1000 n ns since boot before             *)
(*    TimestampNormalizer, and for 1000 n ms since the epoch, rounded down *)
(*    to the thousand, after it.                                           *)
(*  - An Option is a sequence of length 0 (None) or 1 (Some), except for   *)
(*    Option<String>, where NoneStr stands for None.                       *)
(*  - A filter expression is the string the user wrote; the parsers read   *)
(*    it character by character.                                           *)
(***************************************************************************)
EXTENDS Integers, Sequences, FiniteSets, TLC

VARIABLES
    sse_buffers,   \* SSEProcessor.sse_buffers: connection id -> SSEAccumulator
    input,         \* the Events pulled from the runner so far, in arrival order
    output,        \* the Events that left the chain, each with the input index it left at
    stages,        \* what each analyzer received and emitted for the last input Event
    filters,       \* HTTPFilter.filters: the compiled exclude expressions
    http_counters, \* HTTPFilter's total_events_processed, filtered_events_count, passed_events_count
    HTTP_FILTER_GLOBAL_METRICS,  \* the OnceLock of http_filter.rs
    ssl_filter,    \* the SSLFilter: its compiled expressions and its three counters
    SSL_FILTER_GLOBAL_METRICS,   \* the OnceLock of ssl_filter.rs
    BOOT_TIME_SECS,              \* the OnceLock of core/timestamp.rs
    front,         \* per Event of the runner: the Event, the normalized Event, whether SSLFilter passed it
    lifecycle,     \* whether the runner is alive, what the SIGINT handler printed, whether the process exited
    calc,          \* the last evaluation of a function, with its arguments and what it did
    file_logger,   \* the FileLogger: rotation_config, event_count, and the inode file_handle is open on
    disk,          \* the directory of the log file: 0 is <path>, k is <path>.k
    agent,         \* the AgentRunner: its child runners, its global analyzers, the merged stream
    pipeline,      \* a chain built by process_through_analyzers: its analyzers, their state, the stream after each
    adapter,       \* the stream of BinaryExecutor::get_json_stream with its child process
    system         \* the stream of SystemRunner: /proc, previous_stats, and what the last tick yielded

chain_vars == <<sse_buffers, input, output, stages, filters, http_counters,
                HTTP_FILTER_GLOBAL_METRICS>>
front_vars == <<ssl_filter, SSL_FILTER_GLOBAL_METRICS, BOOT_TIME_SECS, front>>
other_units == <<pipeline, adapter, system>>
unit_vars == <<file_logger, disk, agent, other_units>>

vars == <<sse_buffers, input, output, stages, filters, http_counters,
          HTTP_FILTER_GLOBAL_METRICS, ssl_filter, SSL_FILTER_GLOBAL_METRICS,
          BOOT_TIME_SECS, front, lifecycle, calc, file_logger, disk, agent, pipeline, adapter, system>>

----------------------------------------------------------------------------
(* Bounds of the model *)

MaxChunks == 3          \* input Events per run of specification Spec
MaxStream == 4          \* input Events per run of specification SpecStream
BigLen == 49998         \* length in bytes of the one long text piece BigTok
TickStep == 250000000   \* the n-th input Event carries timestamp n * TickStep (250 s)

----------------------------------------------------------------------------
(* Strings *)

NoneStr == "<none>"     \* Option::None of an Option<String>
BigTok == "<big>"       \* stands for a string of BigLen bytes

TokLen(t) == IF t = BigTok THEN BigLen ELSE Len(t)

RECURSIVE StrLen(_)
StrLen(s) == IF s = <<>> THEN 0 ELSE TokLen(Head(s)) + StrLen(Tail(s))

starts_with(s, p) == Len(s) >= Len(p) /\ SubSeq(s, 1, Len(p)) = p

contains(s, sub) == \E i \in 1..(Len(s) - Len(sub) + 1) : SubSeq(s, i, i + Len(sub) - 1) = sub

ends_with(s, p) == Len(s) >= Len(p) /\ SubSeq(s, Len(s) - Len(p) + 1, Len(s)) = p

Char(s, i) == SubSeq(s, i, i)

(* str::find: the position, counted from 1, of the first occurrence; 0 for None *)
find(s, pat) ==
    IF contains(s, pat)
    THEN CHOOSE i \in 1..(Len(s) - Len(pat) + 1) :
            /\ SubSeq(s, i, i + Len(pat) - 1) = pat
            /\ \A j \in 1..(i - 1) : SubSeq(s, j, j + Len(pat) - 1) # pat
    ELSE 0

Whitespace == {" ", "\t", "\n", "\r", "\f"}

RECURSIVE trim_start(_)
trim_start(s) ==
    IF Len(s) > 0 /\ Char(s, 1) \in Whitespace THEN trim_start(SubSeq(s, 2, Len(s))) ELSE s

RECURSIVE trim_end(_)
trim_end(s) ==
    IF Len(s) > 0 /\ Char(s, Len(s)) \in Whitespace THEN trim_end(SubSeq(s, 1, Len(s) - 1)) ELSE s

trim(s) == trim_end(trim_start(s))

(* str::split on one character *)
RECURSIVE split(_, _)
split(s, ch) ==
    IF find(s, ch) = 0 THEN <<s>>
    ELSE <<SubSeq(s, 1, find(s, ch) - 1)>> \o split(SubSeq(s, find(s, ch) + 1, Len(s)), ch)

(* str::splitn(2, ch) *)
splitn2(s, ch) ==
    IF find(s, ch) = 0 THEN <<s>>
    ELSE <<SubSeq(s, 1, find(s, ch) - 1), SubSeq(s, find(s, ch) + 1, Len(s))>>

DigitOf(c) ==
    CASE c = "0" -> 0 [] c = "1" -> 1 [] c = "2" -> 2 [] c = "3" -> 3 [] c = "4" -> 4
      [] c = "5" -> 5 [] c = "6" -> 6 [] c = "7" -> 7 [] c = "8" -> 8 [] c = "9" -> 9
      [] OTHER -> -1

RECURSIVE DigitsValue(_, _)
DigitsValue(s, acc) ==
    IF s = "" THEN acc ELSE DigitsValue(SubSeq(s, 2, Len(s)), 10 * acc + DigitOf(Char(s, 1)))

(* The strings on which parse::<usize>() succeeds, among those that occur *)
DigitStrings == {"0", "5", "26"}

----------------------------------------------------------------------------
(* Lines of an SSL payload *)

HexLine(n)  == [kind |-> "hex", size |-> n]
SseLine(bs) == [kind |-> "sse", blocks |-> bs]
HeaderLine(k, v) == [kind |-> "header", key |-> k, value |-> v]
RequestLine(m, p) == [kind |-> "request", method |-> m, path |-> p, protocol |-> "HTTP/1.1"]
StatusLine(c, t) == [kind |-> "status", protocol |-> "HTTP/1.1", code |-> c, text |-> t]
EmptyLine == [kind |-> "empty"]

(* One SSE block as it stands on the wire: the "event:" line (NoneStr when  *)
(* absent), the kind of its "data:" lines ("none", "json", "raw"), and what *)
(* the JSON of the data holds: message.id, delta.type, delta.text,          *)
(* delta.thinking, delta.partial_json (empty when absent or not a string).  *)
Block(ev, d, mid, dt, tx, th, pj) ==
    [event |-> ev, data |-> d, msgid |-> mid, dtype |-> dt,
     text |-> tx, thinking |-> th, partial_json |-> pj]

Plain(ev) == Block(ev, "json", NoneStr, NoneStr, <<>>, <<>>, <<>>)
Start(mid) == Block("message_start", "json", mid, NoneStr, <<>>, <<>>, <<>>)
TextDelta(tx) == Block("content_block_delta", "json", NoneStr, "text_delta", tx, <<>>, <<>>)
ThinkingDelta(th) == Block("content_block_delta", "json", NoneStr, "thinking_delta", <<>>, th, <<>>)
JsonDelta(pj) == Block("content_block_delta", "json", NoneStr, "input_json_delta", <<>>, <<>>, pj)
Stop == Plain("message_stop")
Ping == Plain("ping")
MessageDelta == Plain("message_delta")
Comment == Block(NoneStr, "none", NoneStr, NoneStr, <<>>, <<>>, <<>>)

----------------------------------------------------------------------------
(* Events *)

SslEvent(ts, p, t, lines) ==
    [timestamp |-> ts, source |-> "ssl", pid |-> p, comm |-> "claude",
     data |-> [pid |-> p, tid |-> t, function |-> "READ/RECV",
               has_data |-> TRUE, data |-> lines]]

(* The body of a chunked response: hex size line, then the content line. *)
Wrapped(blocks) == <<HexLine(26), SseLine(blocks), EmptyLine>>
Unwrapped(blocks) == <<SseLine(blocks)>>

----------------------------------------------------------------------------
(* core/timestamp.rs and TimestampNormalizer *)

(* What /proc/stat btime, or now - uptime of /proc/uptime, can give: seconds *)
(* since the epoch; two reads of the fallback can differ by a second.        *)
BootTimes == {1700000000, 1700000001}

(* get_boot_time_secs read anew at every call *)
get_boot_time_secs_Reread(cell) == BootTimes

(* BOOT_TIME_SECS.get_or_init: the values the call can return for the cell *)
get_boot_time_secs(cell) == IF cell # <<>> THEN {cell[1]} ELSE BootTimes

(* boot_ns_to_epoch_ms that takes its argument for microseconds *)
boot_ns_to_epoch_ms_Micros(boot_time_secs, ns_since_boot) ==
    boot_time_secs + ns_since_boot \div 1000

(* boot_time_secs * 1000 ms and ns_since_boot / 1_000_000 ms, both in       *)
(* thousands of ms when ns_since_boot is in thousands of ns                 *)
boot_ns_to_epoch_ms(boot_time_secs, ns_since_boot) ==
    LET boot_time_ms == boot_time_secs
        offset_ms == ns_since_boot \div 1000000
    IN boot_time_ms + offset_ms

(* TimestampNormalizer::process for one Event: the Events it emits *)
TimestampNormalizer_process(boot_time_secs, event) ==
    <<[event EXCEPT !.timestamp = boot_ns_to_epoch_ms(boot_time_secs, event.timestamp)]>>

----------------------------------------------------------------------------
(* SSEProcessor *)

SizeLimit == 50000
WindowTicks == 600000000  \* 600_000_000_000, in thousands

HasEventField(lines) ==
    \E i \in 1..Len(lines) : lines[i].kind = "sse" /\
        \E j \in 1..Len(lines[i].blocks) : lines[i].blocks[j].event # NoneStr

HasDataField(lines) ==
    \E i \in 1..Len(lines) : lines[i].kind = "sse" /\
        \E j \in 1..Len(lines[i].blocks) : lines[i].blocks[j].data # "none"

HasHeader(lines, k, v) ==
    \E i \in 1..Len(lines) : lines[i].kind = "header" /\ lines[i].key = k /\ lines[i].value = v

(* "\n\n" occurs after every block; "\r\n\r\n" is an empty line between two line breaks *)
HasBlankLine(lines) ==
    \/ \E i \in 1..Len(lines) : lines[i].kind = "sse" /\ lines[i].blocks # <<>>
    \/ \E i \in 2..(Len(lines) - 1) : lines[i].kind = "empty"

is_sse_data(lines) ==
    LET has_sse_patterns == HasEventField(lines) /\ HasDataField(lines)
        has_sse_content_type == HasHeader(lines, "Content-Type", "text/event-stream")
        has_chunked_sse == HasHeader(lines, "Transfer-Encoding", "chunked")
                           /\ (HasEventField(lines) \/ HasDataField(lines))
        has_sse_data_only == HasDataField(lines) /\ HasBlankLine(lines)
    IN has_sse_patterns \/ has_sse_content_type \/ has_chunked_sse \/ has_sse_data_only

(* The while loop of clean_chunked_content from line i on: a hex line of   *)
(* size 0 ends the scan, any other hex line takes the next line as content. *)
RECURSIVE CleanFrom(_, _)
CleanFrom(lines, i) ==
    IF i > Len(lines) THEN <<>>
    ELSE IF lines[i].kind = "hex"
         THEN IF lines[i].size = 0 THEN <<>>
              ELSE IF i + 1 <= Len(lines)
                   THEN <<lines[i + 1]>> \o CleanFrom(lines, i + 2)
                   ELSE <<>>
         ELSE CleanFrom(lines, i + 1)

clean_chunked_content(lines) == CleanFrom(lines, 1)

ParseBlock(b) ==
    IF b.data = "json" THEN b
    ELSE Block(b.event, b.data, NoneStr, NoneStr, <<>>, <<>>, <<>>)

RECURSIVE ParseBlocks(_)
ParseBlocks(bs) ==
    IF bs = <<>> THEN <<>>
    ELSE LET b == Head(bs) IN
         IF b.event # NoneStr \/ b.data # "none"
         THEN <<ParseBlock(b)>> \o ParseBlocks(Tail(bs))
         ELSE ParseBlocks(Tail(bs))

RECURSIVE BlocksOf(_)
BlocksOf(parts) ==
    IF parts = <<>> THEN <<>>
    ELSE (IF Head(parts).kind = "sse" THEN Head(parts).blocks ELSE <<>>) \o BlocksOf(Tail(parts))

parse_sse_events_from_chunk(parts) == ParseBlocks(BlocksOf(parts))

parse_sse_events(lines) == parse_sse_events_from_chunk(clean_chunked_content(lines))

RECURSIVE extract_message_id(_)
extract_message_id(events) ==
    IF events = <<>> THEN NoneStr
    ELSE IF Head(events).event = "message_start" /\ Head(events).msgid # NoneStr
         THEN Head(events).msgid
         ELSE extract_message_id(Tail(events))

Pid(event) == IF "pid" \in DOMAIN event.data THEN event.data.pid ELSE 0
Tid(event) == IF "tid" \in DOMAIN event.data THEN event.data.tid ELSE 0

ConnPrefix(event) == ToString(Pid(event)) \o ":" \o ToString(Tid(event)) \o ":"

generate_connection_id(event, sse_events) ==
    IF extract_message_id(sse_events) # NoneStr
    THEN ConnPrefix(event) \o extract_message_id(sse_events)
    ELSE ConnPrefix(event) \o ToString(event.timestamp \div WindowTicks)

HasEventType(acc, ty) == \E i \in 1..Len(acc.events) : acc.events[i].event = ty

(* is_sse_complete without the "error" arm *)
is_sse_complete_NoError(acc) ==
    \/ HasEventType(acc, "message_stop")
    \/ StrLen(acc.accumulated_text) > SizeLimit
    \/ StrLen(acc.accumulated_json) > SizeLimit

is_sse_complete(acc) ==
    \/ HasEventType(acc, "message_stop")
    \/ HasEventType(acc, "error")
    \/ StrLen(acc.accumulated_text) > SizeLimit
    \/ StrLen(acc.accumulated_json) > SizeLimit

MetadataTypes == {"message_stop", "message_delta", "ping", "content_block_stop", "content_block_start"}

(* has_meaningful_content with "at least three events" for "more than three" *)
has_meaningful_content_AtLeast3(acc) ==
    \/ acc.accumulated_text # <<>>
    \/ acc.accumulated_json # <<>>
    \/ HasEventType(acc, "content_block_delta")
    \/ (HasEventType(acc, "message_start") /\ Len(acc.events) >= 3)

has_meaningful_content(acc) ==
    LET has_content_deltas == HasEventType(acc, "content_block_delta")
        has_message_start == HasEventType(acc, "message_start")
        metadata_only_count ==
            Cardinality({i \in 1..Len(acc.events) : acc.events[i].event \in MetadataTypes})
    IN \/ acc.accumulated_text # <<>>
       \/ acc.accumulated_json # <<>>
       \/ has_content_deltas
       \/ (has_message_start /\ Len(acc.events) > 3 /\ metadata_only_count < Len(acc.events))

DeltaText(e) ==
    IF e.dtype = "text_delta" THEN e.text
    ELSE IF e.dtype = "thinking_delta" THEN e.thinking
    ELSE <<>>

(* AccumulateOne that puts a delta's text in front of the text buffer *)
AccumulateOne_Prepend(acc, e) ==
    LET pushed == [acc EXCEPT !.events = Append(@, e)] IN
    IF e.event = "message_start"
    THEN [pushed EXCEPT !.has_message_start = TRUE,
                        !.message_id = IF @ = NoneStr THEN extract_message_id(<<e>>) ELSE @]
    ELSE IF e.event = "content_block_delta"
    THEN [pushed EXCEPT !.accumulated_text = DeltaText(e) \o @,
                        !.accumulated_json = @ \o e.partial_json]
    ELSE pushed

AccumulateOne(acc, e) ==
    LET pushed == [acc EXCEPT !.events = Append(@, e)] IN
    IF e.event = "message_start"
    THEN [pushed EXCEPT !.has_message_start = TRUE,
                        !.message_id = IF @ = NoneStr THEN extract_message_id(<<e>>) ELSE @]
    ELSE IF e.event = "content_block_delta"
    THEN [pushed EXCEPT !.accumulated_text = @ \o DeltaText(e),
                        !.accumulated_json = @ \o e.partial_json]
    ELSE pushed

RECURSIVE accumulate_content(_, _)
accumulate_content(acc, events) ==
    IF events = <<>> THEN acc
    ELSE accumulate_content(AccumulateOne(acc, Head(events)), Tail(events))

NewAccumulator(event) ==
    [message_id |-> NoneStr, accumulated_text |-> <<>>, accumulated_json |-> <<>>,
     events |-> <<>>, is_complete |-> FALSE, last_update |-> event.timestamp,
     has_message_start |-> FALSE, start_time |-> event.timestamp,
     end_time |-> event.timestamp]

Function(event) == IF "function" \in DOMAIN event.data THEN event.data.function ELSE "unknown"
HasDataStr(event) == "has_data" \in DOMAIN event.data /\ event.data.has_data

(* serde_json::from_str of the accumulated partial_json, then to_string_pretty *)
JsonA == "[1,"
JsonB == "2]"
PrettyJson(json) == IF json = <<JsonA, JsonB>> THEN <<"[\n  1,\n  2\n]">> ELSE json

create_merged_event(connection_id, acc, original_event) ==
    LET json_content == IF acc.accumulated_json # <<>> THEN PrettyJson(acc.accumulated_json) ELSE <<>>
        text_content == acc.accumulated_text
    IN [connection_id |-> connection_id,
        message_id |-> acc.message_id,
        start_time |-> acc.start_time,
        end_time |-> acc.end_time,
        source |-> "ssl",
        function |-> Function(original_event),
        tid |-> Tid(original_event),
        json_content |-> json_content,
        text_content |-> text_content,
        total_size |-> StrLen(json_content) + StrLen(text_content),
        event_count |-> Len(acc.events),
        has_message_start |-> acc.has_message_start,
        sse_events |-> acc.events]

(* SSEProcessorEvent::to_event: source "sse_processor", timestamp = start_time, *)
(* pid and comm of the triggering Event.                                        *)
SSEProcessorEvent_to_event(payload, original_event) ==
    [timestamp |-> payload.start_time, source |-> "sse_processor",
     pid |-> original_event.pid, comm |-> original_event.comm, data |-> payload]

has_content_potential(sse_events) ==
    \E i \in 1..Len(sse_events) : sse_events[i].event \notin {"message_delta", "ping"}

should_skip_chunk(sse_events) ==
    /\ ~has_content_potential(sse_events)
    /\ \A i \in 1..Len(sse_events) : sse_events[i].event \in {"ping", "message_delta"}

(* The open accumulators of the same pid:tid that the scan of the HashMap can *)
(* stop at; the iteration order of a HashMap is unspecified, so each of them  *)
(* can be the first one found.                                                *)
OpenAccumulators(buffers, event) ==
    {k \in DOMAIN buffers :
        /\ starts_with(k, ConnPrefix(event))
        /\ ~buffers[k].is_complete
        /\ ~HasEventType(buffers[k], "message_stop")}

FinalConnectionIds(buffers, event, sse_events) ==
    IF extract_message_id(sse_events) # NoneStr
    THEN {ConnPrefix(event) \o extract_message_id(sse_events)}
    ELSE IF OpenAccumulators(buffers, event) = {}
         THEN {generate_connection_id(event, sse_events)}
         ELSE OpenAccumulators(buffers, event)

NoAcc == NewAccumulator([timestamp |-> 0])

Passed(buffers, event) ==
    [buffers |-> buffers, out |-> <<event>>, kind |-> "pass", key |-> NoneStr, acc |-> NoAcc]

(* Accumulated that removes a complete accumulator only when it emits for it *)
Accumulated_KeepDiscarded(buffers, event, sse_events, fid) ==
    LET acc0 == IF fid \in DOMAIN buffers THEN buffers[fid] ELSE NewAccumulator(event)
        acc1 == [acc0 EXCEPT !.last_update = event.timestamp, !.end_time = event.timestamp]
        acc  == accumulate_content(acc1, sse_events)
        with == [k \in DOMAIN buffers \cup {fid} |-> IF k = fid THEN acc ELSE buffers[k]]
    IN IF is_sse_complete(acc) /\ has_meaningful_content(acc)
       THEN [buffers |-> [k \in DOMAIN buffers \ {fid} |-> buffers[k]],
             out |-> <<SSEProcessorEvent_to_event(create_merged_event(fid, acc, event), event)>>,
             kind |-> "emit", key |-> fid, acc |-> acc]
       ELSE [buffers |-> with, out |-> <<>>,
             kind |-> IF is_sse_complete(acc) THEN "discard" ELSE "append",
             key |-> fid, acc |-> acc]

(* Lines 546-606 of process: entry().or_insert_with, accumulate, complete? *)
Accumulated(buffers, event, sse_events, fid) ==
    LET acc0 == IF fid \in DOMAIN buffers THEN buffers[fid] ELSE NewAccumulator(event)
        acc1 == [acc0 EXCEPT !.last_update = event.timestamp, !.end_time = event.timestamp]
        acc  == accumulate_content(acc1, sse_events)
    IN IF is_sse_complete(acc)
       THEN [buffers |-> [k \in DOMAIN buffers \ {fid} |-> buffers[k]],
             out |-> IF has_meaningful_content(acc)
                     THEN <<SSEProcessorEvent_to_event(create_merged_event(fid, acc, event), event)>>
                     ELSE <<>>,
             kind |-> IF has_meaningful_content(acc) THEN "emit" ELSE "discard",
             key |-> fid, acc |-> acc]
       ELSE [buffers |-> [k \in DOMAIN buffers \cup {fid} |-> IF k = fid THEN acc ELSE buffers[k]],
             out |-> <<>>, kind |-> "append", key |-> fid, acc |-> acc]

(* SSEProcessor::process for one Event: the set of its possible outcomes *)
SSEProcessor_process(buffers, event) ==
    IF event.source # "ssl" THEN {Passed(buffers, event)}
    ELSE IF ~HasDataStr(event) THEN {Passed(buffers, event)}
    ELSE IF ~is_sse_data(event.data.data) THEN {Passed(buffers, event)}
    ELSE LET sse_events == parse_sse_events(event.data.data) IN
         IF sse_events = <<>> THEN {Passed(buffers, event)}
         ELSE IF /\ should_skip_chunk(sse_events)
                 /\ generate_connection_id(event, sse_events) \notin DOMAIN buffers
              THEN {[buffers |-> buffers, out |-> <<>>, kind |-> "skip",
                     key |-> generate_connection_id(event, sse_events), acc |-> NoAcc]}
              ELSE {Accumulated(buffers, event, sse_events, fid) :
                        fid \in FinalConnectionIds(buffers, event, sse_events)}

----------------------------------------------------------------------------
(* HTTPParser *)

Methods == {"GET", "POST", "PUT", "DELETE", "HEAD", "OPTIONS", "PATCH"}

is_http_data(lines) ==
    LET has_http_request ==
            /\ \E i \in 1..Len(lines) : lines[i].kind \in {"request", "status"}
            /\ \E i \in 1..Len(lines) : lines[i].kind = "request" /\ lines[i].method \in Methods
        has_http_response == \E i \in 1..Len(lines) : lines[i].kind = "status"
        has_http_headers ==
            \E i \in 1..Len(lines) : lines[i].kind = "header" /\
                lines[i].key \in {"Content-Type", "content-type", "Host", "host",
                                  "User-Agent", "user-agent"}
    IN has_http_request \/ has_http_response \/ has_http_headers

(* str::to_lowercase on the header names and values that occur *)
to_lowercase(s) ==
    CASE s = "Host" -> "host"
      [] s = "Content-Type" -> "content-type"
      [] s = "Transfer-Encoding" -> "transfer-encoding"
      [] s = "Authorization" -> "authorization"
      [] s = "X-API-KEY" -> "x-api-key"
      [] s = "Cookie" -> "cookie"
      [] s = "User-Agent" -> "user-agent"
      [] OTHER -> s

to_uppercase(s) ==
    CASE s = "get" -> "GET"
      [] s = "post" -> "POST"
      [] OTHER -> s

(* Index of the first empty line after the first line, 0 when there is none *)
RECURSIVE BodyBoundary(_, _)
BodyBoundary(lines, i) ==
    IF i > Len(lines) THEN 0
    ELSE IF lines[i].kind = "empty" THEN i
    ELSE BodyBoundary(lines, i + 1)

(* The key a line of SSE blocks yields at its first colon *)
JunkKey(line) == IF line.blocks[1].event # NoneStr THEN "event"
                 ELSE IF line.blocks[1].data # "none" THEN "data" ELSE ""

(* The header map after the lines 2..i: a later line overwrites an earlier key. *)
RECURSIVE HeadersUpTo(_, _)
HeadersUpTo(lines, i) ==
    IF i < 2 THEN [k \in {} |-> ""]
    ELSE LET before == HeadersUpTo(lines, i - 1)
             Put(key, value) ==
                 [k \in DOMAIN before \cup {key} |-> IF k = key THEN value ELSE before[k]]
         IN IF lines[i].kind = "header"
            THEN Put(to_lowercase(trim(lines[i].key)), trim(lines[i].value))
            ELSE IF lines[i].kind = "sse" /\ lines[i].blocks # <<>>
            THEN Put(JunkKey(lines[i]), "<sse>")
            ELSE before

LineLen(line) ==
    CASE line.kind = "request" -> Len(line.method) + 1 + Len(line.path) + 1 + Len(line.protocol)
      [] line.kind = "status" -> Len(line.protocol) + 1 + Len(ToString(line.code)) + 1 + Len(line.text)
      [] line.kind = "header" -> Len(line.key) + 2 + Len(line.value)
      [] line.kind = "hex" -> Len(ToString(line.size))
      [] line.kind = "sse" -> 13 * Len(line.blocks)
      [] OTHER -> 0

RECURSIVE JoinLen(_)
JoinLen(lines) ==
    IF lines = <<>> THEN 0
    ELSE IF Len(lines) = 1 THEN LineLen(lines[1])
    ELSE LineLen(Head(lines)) + 2 + JoinLen(Tail(lines))

parse_http_message(lines) ==
    LET first_line == lines[1]
        boundary == BodyBoundary(lines, 2)
        last_header == IF boundary = 0 THEN Len(lines) ELSE boundary - 1
        body_lines == IF boundary # 0 /\ boundary + 1 <= Len(lines)
                      THEN SubSeq(lines, boundary + 1, Len(lines)) ELSE <<>>
        has_body == \E i \in 1..Len(body_lines) : body_lines[i].kind # "empty"
    IN [message_type |-> IF first_line.kind = "status" THEN "response" ELSE "request",
        first_line |-> first_line,
        headers |-> HeadersUpTo(lines, last_header),
        has_body |-> has_body,
        body |-> IF has_body THEN body_lines ELSE <<>>,
        raw_data |-> lines,
        method |-> IF first_line.kind = "request" THEN first_line.method ELSE NoneStr,
        path |-> IF first_line.kind = "request" THEN first_line.path ELSE NoneStr,
        protocol |-> IF first_line.kind \in {"request", "status"} THEN first_line.protocol ELSE NoneStr,
        status_code |-> IF first_line.kind = "status" THEN first_line.code ELSE 0,
        status_text |-> IF first_line.kind = "status" THEN first_line.text ELSE NoneStr]

SumHeaderLen(headers) ==
    LET RECURSIVE Sum(_)
        Sum(ks) == IF ks = {} THEN 0
                   ELSE LET k == CHOOSE x \in ks : TRUE
                        IN Len(k) + Len(headers[k]) + 4 + Sum(ks \ {k})
    IN Sum(DOMAIN headers)

create_http_event(tid, m, include_raw_data) ==
    [tid |-> tid,
     message_type |-> m.message_type,
     first_line |-> m.first_line,
     method |-> m.method,
     path |-> m.path,
     protocol |-> m.protocol,
     status_code |-> m.status_code,
     status_text |-> m.status_text,
     headers |-> m.headers,
     body |-> m.body,
     total_size |-> LineLen(m.first_line) + SumHeaderLen(m.headers) + JoinLen(m.body) + 4,
     has_body |-> m.has_body,
     is_chunked |-> "transfer-encoding" \in DOMAIN m.headers
                    /\ contains(to_lowercase(m.headers["transfer-encoding"]), "chunked"),
     content_length |-> IF "content-length" \in DOMAIN m.headers
                           /\ m.headers["content-length"] \in DigitStrings
                        THEN m.headers["content-length"] ELSE NoneStr,
     source |-> "ssl",
     raw_data |-> IF include_raw_data THEN m.raw_data ELSE <<>>]

(* HTTPEvent::to_event: source "http_parser", timestamp, pid and comm of the SSL Event *)
HTTPEvent_to_event(payload, original_event) ==
    [timestamp |-> original_event.timestamp, source |-> "http_parser",
     pid |-> original_event.pid, comm |-> original_event.comm, data |-> payload]

(* handle_ssl_event without the test is_http_data *)
handle_ssl_event_AlwaysParse(event, include_raw_data) ==
    IF ~HasDataStr(event) THEN event
    ELSE HTTPEvent_to_event(
             create_http_event(Tid(event), parse_http_message(event.data.data), include_raw_data),
             event)

handle_ssl_event(event, include_raw_data) ==
    IF ~HasDataStr(event) THEN event
    ELSE IF is_http_data(event.data.data)
         THEN HTTPEvent_to_event(
                  create_http_event(Tid(event), parse_http_message(event.data.data), include_raw_data),
                  event)
         ELSE event

(* HTTPParser::process without the test of the source *)
HTTPParser_process_AnySource(event) == <<handle_ssl_event(event, TRUE)>>

(* HTTPParser::process for one Event: the Events it emits *)
HTTPParser_process(event) ==
    IF event.source = "ssl" THEN <<handle_ssl_event(event, TRUE)>> ELSE <<event>>

----------------------------------------------------------------------------
(* HTTPFilter *)

Condition(target, field, operator, value) ==
    [node |-> "Condition", target |-> target, field |-> field,
     operator |-> operator, value |-> value]
Or(children) == [node |-> "Or", children |-> children]
And(children) == [node |-> "And", children |-> children]
Empty == [node |-> "Empty"]

(* FilterExpression::parse_condition of http_filter.rs *)
parse_condition(text) ==
    LET condition == trim(text) IN
    IF ~contains(condition, "=")
    THEN Condition("request", "path", "contains", condition)
    ELSE LET parts == splitn2(condition, "=")
             key == trim(parts[1])
             value == trim(parts[2])
             legacy == CASE key \in {"path_prefix", "path_starts_with"} -> "prefix"
                         [] key \in {"path_contains", "path_includes"} -> "contains"
                         [] OTHER -> "exact"
         IN IF contains(key, ".")
            THEN LET key_parts == splitn2(key, ".")
                     target == trim(key_parts[1])
                     field == trim(key_parts[2])
                     op == CASE field \in {"path_prefix", "path_starts_with"} -> "prefix"
                             [] field \in {"path_contains", "path_includes"} -> "contains"
                             [] OTHER -> "exact"
                 IN IF target \in {"request", "req"}
                    THEN Condition("request", field, op, value)
                    ELSE IF target \in {"response", "resp", "res"}
                    THEN Condition("response", field, "exact", value)
                    ELSE Condition("request", field, "exact", value)
            ELSE Condition("request", key, legacy, value)

(* FilterExpression::parse_and_expression of http_filter.rs *)
parse_and_expression(expr) ==
    LET and_parts == split(expr, "&") IN
    IF Len(and_parts) > 1
    THEN And([i \in 1..Len(and_parts) |-> parse_condition(trim(and_parts[i]))])
    ELSE parse_condition(expr)

(* FilterExpression::parse_or_expression of http_filter.rs *)
parse_or_expression(expr) ==
    LET or_parts == split(expr, "|") IN
    IF Len(or_parts) > 1
    THEN Or([i \in 1..Len(or_parts) |-> parse_and_expression(trim(or_parts[i]))])
    ELSE parse_and_expression(expr)

(* parse_or_expression that splits at '&' first *)
parse_AndFirst(expression) ==
    LET and_parts == split(trim(expression), "&") IN
    IF trim(expression) = "" THEN Empty
    ELSE IF Len(and_parts) > 1
    THEN And([i \in 1..Len(and_parts) |->
                 LET or_parts == split(trim(and_parts[i]), "|") IN
                 IF Len(or_parts) > 1
                 THEN Or([j \in 1..Len(or_parts) |-> parse_condition(trim(or_parts[j]))])
                 ELSE parse_condition(trim(and_parts[i]))])
    ELSE parse_or_expression(trim(expression))

(* FilterExpression::parse of http_filter.rs: the parsed tree *)
parse(expression) ==
    IF trim(expression) = "" THEN Empty ELSE parse_or_expression(trim(expression))

(* data.get(f).and_then(|v| v.as_str()).unwrap_or("") *)
StrField(data, f) == IF f \in DOMAIN data /\ data[f] # NoneStr THEN data[f] ELSE ""

(* data.get("headers").as_object(), then headers.get(k).as_str().unwrap_or("") *)
HeaderField(data, k) ==
    IF "headers" \in DOMAIN data /\ k \in DOMAIN data.headers THEN data.headers[k] ELSE ""

(* value.parse::<u64>() of a string of decimal digits; -1 stands for Err *)
parse_u64(value) ==
    IF value # "" /\ \A i \in 1..Len(value) : DigitOf(Char(value, i)) # -1
    THEN DigitsValue(value, 0)
    ELSE -1

(* The part of path after its first '?', NoneStr when there is no '?' *)
QueryOf(path) ==
    IF \E i \in 1..Len(path) : SubSeq(path, i, i) = "?"
    THEN LET q == CHOOSE i \in 1..Len(path) :
                    /\ SubSeq(path, i, i) = "?"
                    /\ \A j \in 1..(i - 1) : SubSeq(path, j, j) # "?"
         IN SubSeq(path, q + 1, Len(path))
    ELSE NoneStr

evaluate_request_condition(field, operator, value, data) ==
    LET path == StrField(data, "path") IN
    CASE field \in {"method", "verb"} ->
            to_uppercase(StrField(data, "method")) = to_uppercase(value)
      [] field \in {"path", "path_exact"} ->
            IF operator = "prefix" THEN starts_with(path, value)
            ELSE IF operator = "contains" THEN contains(path, value)
            ELSE path = value
      [] field \in {"path_prefix", "path_starts_with"} -> starts_with(path, value)
      [] field \in {"path_contains", "path_includes"} -> contains(path, value)
      [] field \in {"host", "hostname"} -> HeaderField(data, "host") = value
      [] field \in {"body", "body_contains"} -> contains(StrField(data, "body"), value)
      [] OTHER ->
            /\ QueryOf(path) # NoneStr
            /\ contains(QueryOf(path), field \o "=" \o value)

evaluate_response_condition(field, operator, value, data) ==
    CASE field \in {"status_code", "status", "code"} ->
            /\ parse_u64(value) # -1
            /\ (IF "status_code" \in DOMAIN data THEN data.status_code ELSE 0) = parse_u64(value)
      [] field \in {"status_text", "status_message"} ->
            contains(to_lowercase(StrField(data, "status_text")), to_lowercase(value))
      [] field \in {"content_type", "content-type"} ->
            contains(HeaderField(data, "content-type"), value)
      [] field = "server" -> contains(HeaderField(data, "server"), value)
      [] field \in {"body", "body_contains"} -> contains(StrField(data, "body"), value)
      [] OTHER -> contains(HeaderField(data, field), value)

evaluate_condition(target, field, operator, value, data) ==
    LET message_type == StrField(data, "message_type")
        matches_target ==
            CASE target = "request" -> message_type = "request"
              [] target = "response" -> message_type = "response"
              [] OTHER -> FALSE
    IN IF ~matches_target THEN FALSE
       ELSE IF target = "request" THEN evaluate_request_condition(field, operator, value, data)
       ELSE evaluate_response_condition(field, operator, value, data)

RECURSIVE evaluate_node(_, _)
evaluate_node(node, data) ==
    CASE node.node = "Empty" -> FALSE
      [] node.node = "And" ->
            \A i \in 1..Len(node.children) : evaluate_node(node.children[i], data)
      [] node.node = "Or" ->
            \E i \in 1..Len(node.children) : evaluate_node(node.children[i], data)
      [] node.node = "Condition" ->
            evaluate_condition(node.target, node.field, node.operator, node.value, data)

(* should_filter without the test of the source *)
should_filter_AnySource(fs, event) ==
    IF fs = <<>> THEN FALSE
    ELSE \E i \in 1..Len(fs) : evaluate_node(fs[i], event.data)

should_filter(fs, event) ==
    IF fs = <<>> THEN FALSE
    ELSE IF event.source # "http_parser" THEN FALSE
    ELSE \E i \in 1..Len(fs) : evaluate_node(fs[i], event.data)

(* HTTPFilter::process for one Event: the Events it emits *)
HTTPFilter_process(fs, event) ==
    IF should_filter(fs, event) THEN <<>> ELSE <<event>>

(* FilterMetrics, and the three counters of a filter *)
FilterMetrics(total, filtered, passed) ==
    [total_events_processed |-> total, filtered_events_count |-> filtered,
     passed_events_count |-> passed]

(* The fetch_add calls of HTTPFilter::process for the Events s of which out passed *)
HTTPFilter_count(c, s, out) ==
    FilterMetrics(c.total_events_processed + Len(s),
                  c.filtered_events_count + (Len(s) - Len(out)),
                  c.passed_events_count + Len(out))

(* update_global_metrics of http_filter.rs: overwrites, when the cell is set *)
update_global_metrics(cell, total, filtered, passed) ==
    IF cell # <<>> THEN <<FilterMetrics(total, filtered, passed)>> ELSE cell

(* print_global_http_filter_metrics: the line it prints *)
print_global_http_filter_metrics(cell) ==
    IF cell # <<>> THEN [filter |-> "HTTPFilter", metrics |-> cell]
    ELSE [filter |-> "HTTPFilter", metrics |-> <<>>]

----------------------------------------------------------------------------
(* SSLFilter *)

SslCondition(field, operator, value) ==
    [node |-> "Condition", field |-> field, operator |-> operator, value |-> value]

(* The number of '(' minus the number of ')' among the first n characters *)
RECURSIVE ParenDepth(_, _)
ParenDepth(expr, n) ==
    IF n = 0 THEN 0
    ELSE ParenDepth(expr, n - 1)
         + (IF Char(expr, n) = "(" THEN 1 ELSE IF Char(expr, n) = ")" THEN -1 ELSE 0)

(* FilterExpression::find_operator: the position from 1, 0 for None *)
find_operator(expr, op) ==
    LET hits == {i \in 1..Len(expr) : Char(expr, i) = op /\ ParenDepth(expr, i - 1) = 0}
    IN IF hits = {} THEN 0 ELSE CHOOSE i \in hits : \A j \in hits : i <= j

RECURSIVE process_escape_sequences(_)
process_escape_sequences(value) ==
    IF value = "" THEN ""
    ELSE IF Char(value, 1) = "\\" /\ Len(value) >= 2 /\ Char(value, 2) \in {"r", "n", "t", "\\", "\""}
    THEN (CASE Char(value, 2) = "r" -> "\r"
            [] Char(value, 2) = "n" -> "\n"
            [] Char(value, 2) = "t" -> "\t"
            [] Char(value, 2) = "\\" -> "\\"
            [] Char(value, 2) = "\"" -> "\"")
         \o process_escape_sequences(SubSeq(value, 3, Len(value)))
    ELSE Char(value, 1) \o process_escape_sequences(SubSeq(value, 2, Len(value)))

operators == <<">=", "<=", "!=", "=", ">", "<", "~">>

OperatorName(op) ==
    CASE op = "=" -> "exact"
      [] op = "!=" -> "not_equal"
      [] op = ">" -> "gt"
      [] op = "<" -> "lt"
      [] op = ">=" -> "gte"
      [] op = "<=" -> "lte"
      [] op = "~" -> "contains"

RECURSIVE ssl_parse_expression(_)
RECURSIVE ssl_parse_condition(_)

(* FilterExpression::parse_condition of ssl_filter.rs *)
ssl_parse_condition(text) ==
    LET expr == trim(text) IN
    IF starts_with(expr, "(") /\ ends_with(expr, ")")
    THEN ssl_parse_expression(SubSeq(expr, 2, Len(expr) - 1))
    ELSE IF \E k \in 1..Len(operators) : find(expr, operators[k]) # 0
    THEN LET k == CHOOSE k \in 1..Len(operators) :
                    /\ find(expr, operators[k]) # 0
                    /\ \A j \in 1..(k - 1) : find(expr, operators[j]) = 0
             op == operators[k]
             pos == find(expr, op)
             field == trim(SubSeq(expr, 1, pos - 1))
             value == trim(SubSeq(expr, pos + Len(op), Len(expr)))
         IN SslCondition(field, OperatorName(op), process_escape_sequences(value))
    ELSE Empty

(* FilterExpression::parse_expression of ssl_filter.rs *)
ssl_parse_expression(text) ==
    LET expr == trim(text)
        or_pos == find_operator(expr, "|")
        and_pos == find_operator(expr, "&")
    IN IF expr = "" THEN Empty
       ELSE IF or_pos # 0
       THEN Or(<<ssl_parse_expression(SubSeq(expr, 1, or_pos - 1)),
                 ssl_parse_expression(SubSeq(expr, or_pos + 1, Len(expr)))>>)
       ELSE IF and_pos # 0
       THEN And(<<ssl_parse_expression(SubSeq(expr, 1, and_pos - 1)),
                  ssl_parse_expression(SubSeq(expr, and_pos + 1, Len(expr)))>>)
       ELSE ssl_parse_condition(expr)

(* common::detect_data_type: a control character other than \n, \r, \t makes it binary *)
detect_data_type(data_str) ==
    IF \A i \in 1..Len(data_str) : Char(data_str, i) # "\f" THEN "text" ELSE "binary"

compare_strings(actual, operator, expected) ==
    CASE operator = "exact" -> actual = expected
      [] operator = "not_equal" -> actual # expected
      [] operator = "contains" -> contains(actual, expected)
      [] operator = "prefix" -> starts_with(actual, expected)
      [] operator = "suffix" -> ends_with(actual, expected)
      [] OTHER -> FALSE

compare_numbers(actual, operator, expected) ==
    LET expected_num == parse_u64(expected) IN
    IF expected_num = -1 THEN FALSE
    ELSE CASE operator = "exact" -> actual = expected_num
           [] operator = "not_equal" -> actual # expected_num
           [] operator = "gt" -> actual > expected_num
           [] operator = "lt" -> actual < expected_num
           [] operator = "gte" -> actual >= expected_num
           [] operator = "lte" -> actual <= expected_num
           [] OTHER -> FALSE

(* The latencies and the expected values of the model are whole numbers, for *)
(* which |actual - expected| < f64::EPSILON is actual = expected.            *)
compare_floats(actual, operator, expected) ==
    LET expected_num == parse_u64(expected) IN
    IF expected_num = -1 THEN FALSE
    ELSE CASE operator = "exact" -> actual = expected_num
           [] operator = "not_equal" -> actual # expected_num
           [] operator = "gt" -> actual > expected_num
           [] operator = "lt" -> actual < expected_num
           [] operator = "gte" -> actual >= expected_num
           [] operator = "lte" -> actual <= expected_num
           [] OTHER -> FALSE

(* FilterExpression::evaluate_condition of ssl_filter.rs.  data.data is a   *)
(* string here: a condition on data or data.type is for payloads that carry *)
(* their data as one string.                                                *)
ssl_evaluate_condition(field, operator, expected, data) ==
    CASE field = "data.type" ->
            "data" \in DOMAIN data
            /\ compare_strings(detect_data_type(data.data), operator, expected)
      [] field \in {"is_handshake", "truncated"} ->
            (IF field \in DOMAIN data THEN data[field] ELSE FALSE) = (expected = "true")
      [] field \in {"len", "pid", "tid", "uid", "timestamp_ns"} ->
            field \in DOMAIN data /\ compare_numbers(data[field], operator, expected)
      [] field = "latency_ms" ->
            field \in DOMAIN data /\ compare_floats(data[field], operator, expected)
      [] field \in {"data", "function", "comm"} ->
            field \in DOMAIN data /\ compare_strings(data[field], operator, expected)
      [] OTHER -> FALSE

(* FilterExpression::evaluate_node of ssl_filter.rs *)
RECURSIVE ssl_evaluate_node(_, _)
ssl_evaluate_node(node, data) ==
    CASE node.node = "And" ->
            ssl_evaluate_node(node.children[1], data) /\ ssl_evaluate_node(node.children[2], data)
      [] node.node = "Or" ->
            ssl_evaluate_node(node.children[1], data) \/ ssl_evaluate_node(node.children[2], data)
      [] node.node = "Condition" ->
            ssl_evaluate_condition(node.field, node.operator, node.value, data)
      [] node.node = "Empty" -> FALSE

(* SSLFilter::with_patterns *)
SSLFilter_with_patterns(patterns) ==
    [filters |-> [i \in 1..Len(patterns) |-> ssl_parse_expression(patterns[i])],
     total_events_processed |-> 0, filtered_events_count |-> 0, passed_events_count |-> 0]

(* should_filter of SSLFilter::process without the test of the source *)
ssl_should_filter_AnySource(fs, event) ==
    IF fs = <<>> THEN FALSE
    ELSE \E i \in 1..Len(fs) : ssl_evaluate_node(fs[i], event.data)

(* should_filter of SSLFilter::process *)
ssl_should_filter(fs, event) ==
    IF fs = <<>> THEN FALSE
    ELSE IF event.source # "ssl" THEN FALSE
    ELSE \E i \in 1..Len(fs) : ssl_evaluate_node(fs[i], event.data)

(* SSLFilter::process for one Event: the Events it emits and the filter with *)
(* its counters after it                                                     *)
SSLFilter_process(f, event) ==
    LET drop == ssl_should_filter(f.filters, event) IN
    [out |-> IF drop THEN <<>> ELSE <<event>>,
     filter |-> [f EXCEPT !.total_events_processed = @ + 1,
                          !.filtered_events_count = IF drop THEN @ + 1 ELSE @,
                          !.passed_events_count = IF drop THEN @ ELSE @ + 1]]

(* update_global_ssl_metrics: adds to the cell, which it creates when unset *)
update_global_ssl_metrics(cell, total, filtered, passed) ==
    LET m == IF cell = <<>> THEN FilterMetrics(0, 0, 0) ELSE cell[1] IN
    <<FilterMetrics(m.total_events_processed + total,
                    m.filtered_events_count + filtered,
                    m.passed_events_count + passed)>>

(* impl Drop for SSLFilter *)
SSLFilter_drop(cell, f) ==
    update_global_ssl_metrics(cell, f.total_events_processed, f.filtered_events_count,
                              f.passed_events_count)

(* print_global_ssl_filter_metrics: the line it prints *)
print_global_ssl_filter_metrics(cell) ==
    IF cell # <<>> THEN [filter |-> "SSLFilter", metrics |-> cell]
    ELSE [filter |-> "SSLFilter", metrics |-> <<>>]

----------------------------------------------------------------------------
(* AuthHeaderRemover *)

auth_headers ==
    {"authorization", "x-api-key", "x-auth-token", "bearer", "token",
     "x-access-token", "x-session-token", "cookie", "set-cookie"}

remove_auth_headers(event_data) ==
    IF ~("message_type" \in DOMAIN event_data /\ event_data.message_type # NoneStr)
    THEN event_data
    ELSE IF "headers" \in DOMAIN event_data
    THEN LET keys_to_remove ==
                 {key \in DOMAIN event_data.headers :
                     \E a \in auth_headers : to_lowercase(key) = to_lowercase(a)}
         IN [event_data EXCEPT !.headers =
                 [k \in DOMAIN event_data.headers \ keys_to_remove |-> event_data.headers[k]]]
    ELSE event_data

(* AuthHeaderRemover::process for one Event: the Events it emits *)
AuthHeaderRemover_process(event) ==
    IF event.source = "http_parser"
    THEN <<[event EXCEPT !.data = remove_auth_headers(event.data)]>>
    ELSE <<event>>

----------------------------------------------------------------------------
(* FileLogger.  A file is its inode number and its lines; a line is the     *)
(* Event it was serialized from and its length in bytes, newline included.  *)
(* A directory maps 0 (<path>) and k (<path>.k) to a file or to NoFile.     *)
(* Every system call of process and perform_rotation either succeeds or,    *)
(* when its name is in faults, returns Err.                                  *)

NoFile == [inode |-> 0, lines |-> <<>>]

LogNames == 0..4

Syscalls == {"metadata", "flush_before_rotation", "rename_shift", "rename_current",
             "open", "remove_file", "write_all", "flush"}

LogRotationConfig(max_file_size, max_files, size_check_interval) ==
    [max_file_size |-> max_file_size, max_files |-> max_files,
     size_check_interval |-> size_check_interval]

(* FileLogger::new (no config) and FileLogger::with_rotation: <path> is     *)
(* opened with create and append, it is inode 1                              *)
FileLogger_new(rotation_config) ==
    [rotation_config |-> rotation_config, event_count |-> 0, file_handle |-> 1]

(* The directory after FileLogger::new in a directory without the log file *)
FreshDisk == [k \in LogNames |-> IF k = 0 THEN [inode |-> 1, lines |-> <<>>] ELSE NoFile]

Exists(dir, k) == dir[k].inode # 0

(* std::fs::metadata(..).len() *)
RECURSIVE metadata_len(_)
metadata_len(lines) ==
    IF lines = <<>> THEN 0 ELSE Head(lines).bytes + metadata_len(Tail(lines))

(* std::fs::rename: replaces the target; Err when the source does not exist *)
rename(dir, old_path, new_path) ==
    IF Exists(dir, old_path)
    THEN [dir EXCEPT ![new_path] = dir[old_path], ![old_path] = NoFile]
    ELSE dir

(* The loop 'for i in (1..config.max_files).rev()' taken in increasing order *)
RECURSIVE Shift_Ascending(_, _, _, _)
Shift_Ascending(dir, i, max_files, faults) ==
    IF i < 1 THEN dir
    ELSE LET k == max_files - i
         IN Shift_Ascending(IF Exists(dir, k) /\ "rename_shift" \notin faults
                            THEN rename(dir, k, k + 1) ELSE dir,
                            i - 1, max_files, faults)

(* The loop 'for i in (1..config.max_files).rev()' of perform_rotation, from i down *)
RECURSIVE Shift(_, _, _, _)
Shift(dir, i, max_files, faults) ==
    IF i < 1 THEN dir
    ELSE Shift(IF Exists(dir, i) /\ "rename_shift" \notin faults
               THEN rename(dir, i, i + 1) ELSE dir,
               i - 1, max_files, faults)

(* perform_rotation that keeps every rotated file: shifts <path>.max_files too *)
perform_rotation_NoLimit(dir, file_handle, config, faults, fresh) ==
    LET shifted == Shift(dir, config.max_files, config.max_files + 1, faults)
        moved == IF "rename_current" \in faults THEN shifted ELSE rename(shifted, 0, 1)
    IN [dir |-> [moved EXCEPT ![0] = [inode |-> fresh, lines |-> <<>>]],
        file_handle |-> fresh]

(* FileLogger::perform_rotation: the directory and the inode file_handle is *)
(* open on afterwards; fresh is the inode number of a file created by open  *)
perform_rotation(dir, file_handle, config, faults, fresh) ==
    LET shifted == Shift(dir, config.max_files - 1, config.max_files, faults)
        moved == IF "rename_current" \in faults THEN shifted ELSE rename(shifted, 0, 1)
        opened == "open" \notin faults
        created == IF ~opened THEN moved
                   ELSE IF Exists(moved, 0)
                   THEN [moved EXCEPT ![0].lines = <<>>]
                   ELSE [moved EXCEPT ![0] = [inode |-> fresh, lines |-> <<>>]]
        cleanup_path == config.max_files + 1
        cleaned == IF Exists(created, cleanup_path) /\ "remove_file" \notin faults
                   THEN [created EXCEPT ![cleanup_path] = NoFile]
                   ELSE created
    IN [dir |-> cleaned,
        file_handle |-> IF opened THEN created[0].inode ELSE file_handle]

(* The size check with 'at least' in place of 'greater than' *)
should_rotate_AtLeast(dir, config, faults) ==
    /\ "metadata" \notin faults
    /\ Exists(dir, 0)
    /\ metadata_len(dir[0].lines) >= config.max_file_size

(* 'if let Ok(metadata) = std::fs::metadata(&file_path) { if metadata.len() > config.max_file_size' *)
should_rotate(dir, config, faults) ==
    /\ "metadata" \notin faults
    /\ Exists(dir, 0)
    /\ metadata_len(dir[0].lines) > config.max_file_size

(* File::write_all on the handle: the line goes to the inode the handle is  *)
(* open on, under whichever name the directory has it                        *)
write_all(dir, file_handle, line, faults) ==
    IF "write_all" \in faults THEN dir
    ELSE [k \in DOMAIN dir |->
             IF dir[k].inode = file_handle
             THEN [dir[k] EXCEPT !.lines = Append(@, line)]
             ELSE dir[k]]

(* The closure of process that forwards an Event only when it was written *)
FileLogger_process_DropOnError(logger, dir, event, bytes, faults, fresh) ==
    LET config == logger.rotation_config
        count == IF config = <<>> THEN logger.event_count ELSE logger.event_count + 1
        checked == config # <<>> /\ count % config[1].size_check_interval = 0
        rotated == checked /\ should_rotate(dir, config[1], faults)
        r == IF rotated THEN perform_rotation(dir, logger.file_handle, config[1], faults, fresh)
             ELSE [dir |-> dir, file_handle |-> logger.file_handle]
    IN [logger |-> [logger EXCEPT !.event_count = count, !.file_handle = r.file_handle],
        dir |-> write_all(r.dir, r.file_handle, [event |-> event, bytes |-> bytes], faults),
        checked |-> checked, rotated |-> rotated,
        out |-> IF faults \cap {"write_all", "flush"} = {} THEN <<event>> ELSE <<>>]

(* The closure of FileLogger::process for one Event whose JSON line has the *)
(* given number of bytes: the logger, the directory, the Events it emits    *)
FileLogger_process(logger, dir, event, bytes, faults, fresh) ==
    LET config == logger.rotation_config
        count == IF config = <<>> THEN logger.event_count ELSE logger.event_count + 1
        checked == config # <<>> /\ count % config[1].size_check_interval = 0
        rotated == checked /\ should_rotate(dir, config[1], faults)
        r == IF rotated THEN perform_rotation(dir, logger.file_handle, config[1], faults, fresh)
             ELSE [dir |-> dir, file_handle |-> logger.file_handle]
    IN [logger |-> [logger EXCEPT !.event_count = count, !.file_handle = r.file_handle],
        dir |-> write_all(r.dir, r.file_handle, [event |-> event, bytes |-> bytes], faults),
        checked |-> checked, rotated |-> rotated,
        out |-> <<event>>]

----------------------------------------------------------------------------
(* AgentRunner.  A child runner is its kind and the Events its stream will  *)
(* yield.  run() of an "ssl" child spawns the tracer binary (the binary     *)
(* adapter, common.rs) before it returns its stream; the stream of a "fake" *)
(* child does nothing until it is polled; run() of a "failing" child        *)
(* returns Err.  A global analyzer is the result of its process().          *)

Runner(kind, events) == [kind |-> kind, events |-> events]

(* SslRunner::run: the stream of the binary adapter, whose get_json_stream  *)
(* has spawned the tracer binary when it returns                             *)
SslRunner_run == [ok |-> TRUE, error |-> "", spawned |-> TRUE]

(* Runner::run of a child: Ok(stream) or Err(message), and whether a process was spawned *)
Runner_run(runner) ==
    IF runner.kind = "failing"
    THEN [ok |-> FALSE, error |-> "Simulated runner failure", spawned |-> FALSE]
    ELSE IF runner.kind = "ssl"
    THEN SslRunner_run
    ELSE [ok |-> TRUE, error |-> "", spawned |-> FALSE]

(* Analyzer::process of a global analyzer: Ok(stream) or Err(message) *)
Analyzer_process(analyzer) ==
    IF analyzer = "failing"
    THEN [ok |-> FALSE, error |-> "Simulated analyzer failure"]
    ELSE [ok |-> TRUE, error |-> ""]

IdleChild(runner) == [state |-> "idle", process |-> "none", pending |-> <<>>]

AgentRunner_new(runners, analyzers) ==
    [runners |-> runners, analyzers |-> analyzers,
     children |-> [i \in 1..Len(runners) |-> IdleChild(runners[i])],
     result |-> "none", error |-> "", applied |-> 0, merged |-> <<>>, ended |-> FALSE]

(* Index of the first element of a sequence of results that is an Err, 0 if none *)
FirstErr(results) ==
    IF \E i \in 1..Len(results) : ~results[i].ok
    THEN CHOOSE i \in 1..Len(results) :
            ~results[i].ok /\ \A j \in 1..(i - 1) : results[j].ok
    ELSE 0

(* What becomes of a child when its stream is dropped unpolled: a stream    *)
(* that was never polled has done nothing; the spawned binary is not killed *)
(* (the Child handle inside the stream is dropped without kill_on_drop), it *)
(* runs on, or dies of SIGPIPE once it writes to the closed pipe            *)
DroppedChild(child, survives) ==
    [child EXCEPT !.state = "dropped", !.pending = <<>>,
                  !.process = IF child.process = "running" /\ ~survives
                              THEN "exited" ELSE child.process]

(* AgentRunner::run behind its first check: the children are started in    *)
(* order up to the first Err, then the global analyzers are applied in      *)
(* order up to the first Err; on Err the streams obtained so far are dropped *)
AgentRunner_start(a, survives) ==
    LET runs == [i \in 1..Len(a.runners) |-> Runner_run(a.runners[i])]
        failed == FirstErr(runs)
        last == IF failed = 0 THEN Len(a.runners) ELSE failed - 1
        started == [i \in 1..Len(a.runners) |->
                       IF i <= last
                       THEN [state |-> "streaming",
                             process |-> IF runs[i].spawned THEN "running" ELSE "none",
                             pending |-> a.runners[i].events]
                       ELSE a.children[i]]
        processed == [i \in 1..Len(a.analyzers) |-> Analyzer_process(a.analyzers[i])]
        refused == FirstErr(processed)
    IN IF failed # 0
       THEN [a EXCEPT !.result = "err", !.error = runs[failed].error,
                      !.children = [i \in 1..Len(a.runners) |->
                                       IF i <= last THEN DroppedChild(started[i], survives)
                                       ELSE started[i]]]
       ELSE IF refused # 0
       THEN [a EXCEPT !.result = "err",
                      !.error = "Global analyzer error: " \o processed[refused].error,
                      !.applied = refused - 1,
                      !.children = [i \in 1..Len(a.runners) |->
                                       DroppedChild(started[i], survives)]]
       ELSE [a EXCEPT !.result = "ok", !.applied = Len(a.analyzers), !.children = started]

(* AgentRunner::run without the check for an empty runner list *)
AgentRunner_run_NoCheck(a, survives) == AgentRunner_start(a, survives)

(* AgentRunner::run: the runner afterwards.  survives: whether a spawned    *)
(* binary whose stream is dropped is still running afterwards               *)
AgentRunner_run(a, survives) ==
    IF a.runners = <<>>
    THEN [a EXCEPT !.result = "err", !.error = "No runners configured for AgentRunner"]
    ELSE AgentRunner_start(a, survives)

(* select_all that is exhausted as soon as one of its streams is *)
select_all_exhausted_Any(children) ==
    \E i \in 1..Len(children) : children[i].state = "ended"

(* futures::stream::select_all yields None once every stream has yielded None *)
select_all_exhausted(children) ==
    \A i \in 1..Len(children) : children[i].state = "ended"

----------------------------------------------------------------------------
(* The binary source adapter (BinaryExecutor::get_json_stream).  The child  *)
(* is spawned before the stream is returned.  Every poll of the stream      *)
(* calls read_line on the child's stdout until it has a value to yield or   *)
(* leaves the loop; what read_line returns is the input of a step.  A JSON  *)
(* value is represented by its compact text.                                 *)

Letters == {"a", "b", "e", "r", "o"}

(* serde_json over the texts of the model: objects whose members are        *)
(* strings of letters, numbers of digits or objects, without inner blanks.  *)
(* Each operator reads one construct at position i and gives the position   *)
(* behind it, 0 when the text does not have that construct there.            *)
RECURSIVE JsonStringEnd(_, _)
JsonStringEnd(s, i) ==
    IF i > Len(s) THEN 0
    ELSE IF Char(s, i) = "\"" THEN i + 1
    ELSE IF Char(s, i) \in Letters THEN JsonStringEnd(s, i + 1)
    ELSE 0

JsonString(s, i) ==
    IF i <= Len(s) /\ Char(s, i) = "\"" THEN JsonStringEnd(s, i + 1) ELSE 0

RECURSIVE JsonNumber(_, _)
JsonNumber(s, i) ==
    IF i <= Len(s) /\ DigitOf(Char(s, i)) >= 0
    THEN IF i + 1 <= Len(s) /\ DigitOf(Char(s, i + 1)) >= 0 THEN JsonNumber(s, i + 1) ELSE i + 1
    ELSE 0

RECURSIVE JsonValue(_, _)
RECURSIVE JsonMembers(_, _)
JsonMembers(s, i) ==
    LET colon == JsonString(s, i)
        behind == IF colon # 0 /\ colon <= Len(s) /\ Char(s, colon) = ":"
                  THEN JsonValue(s, colon + 1) ELSE 0
    IN IF behind = 0 \/ behind > Len(s) THEN 0
       ELSE IF Char(s, behind) = "," THEN JsonMembers(s, behind + 1)
       ELSE IF Char(s, behind) = "}" THEN behind + 1
       ELSE 0

JsonValue(s, i) ==
    IF i > Len(s) THEN 0
    ELSE IF Char(s, i) = "\"" THEN JsonString(s, i)
    ELSE IF DigitOf(Char(s, i)) >= 0 THEN JsonNumber(s, i)
    ELSE IF Char(s, i) = "{"
    THEN IF i + 1 <= Len(s) /\ Char(s, i + 1) = "}" THEN i + 2 ELSE JsonMembers(s, i + 1)
    ELSE 0

(* serde_json::from_str::<Value>: Some(value) or None *)
from_str(s) == IF JsonValue(s, 1) = Len(s) + 1 THEN <<s>> ELSE <<>>

(* The branch Ok(_) of the read loop: what the line makes the stream yield *)
parse_line(line) ==
    LET trimmed == trim(line)
    IN IF trimmed # "" /\ starts_with(trimmed, "{") /\ ends_with(trimmed, "}")
       THEN from_str(trimmed)
       ELSE <<>>

(* The branch InvalidData of the read loop: the valid prefix of the line    *)
(* buffer, parsed when the buffer begins with an open brace                  *)
recover_partial(line) ==
    IF starts_with(trim_start(line), "{") /\ Len(line) > 0 THEN from_str(trim(line)) ELSE <<>>

(* The branch UnexpectedEof of the read loop: the last, partial line *)
parse_final(line) ==
    LET trimmed == trim(line)
    IN IF line # "" /\ starts_with(trimmed, "{") /\ ends_with(trimmed, "}")
       THEN from_str(trimmed)
       ELSE <<>>

(* The stream as get_json_stream returns it: the child runs, nothing read *)
get_json_stream ==
    [state |-> "open", child |-> "running", kill_sent |-> FALSE, waited |-> FALSE,
     line_count |-> 0, reads |-> <<>>, yielded |-> <<>>]

(* The code behind the read loop: child.kill().await, child.wait().await,   *)
(* then the stream yields None                                               *)
terminate(a) ==
    [a EXCEPT !.state = "ended", !.child = "exited", !.kill_sent = TRUE, !.waited = TRUE]

(* The read loop that leaves the loop when a line fails to parse *)
read_loop_StopOnBadLine(a, read) ==
    LET logged == [a EXCEPT !.reads = Append(@, read)]
    IN CASE read.kind = "line" ->
               IF parse_line(read.text) = <<>> THEN terminate(logged)
               ELSE [logged EXCEPT !.line_count = @ + 1,
                                   !.yielded = @ \o parse_line(read.text)]
         [] read.kind = "eof" -> terminate(logged)
         [] read.kind = "invalid_data" -> [logged EXCEPT !.yielded = @ \o recover_partial("")]
         [] read.kind = "unexpected_eof" ->
               terminate([logged EXCEPT !.yielded = @ \o parse_final(read.text)])
         [] read.kind = "interrupted" -> logged
         [] read.kind = "other" -> terminate(logged)

(* One turn of the read loop for what read_line returned.  After Ok the     *)
(* line buffer holds the line; after InvalidData it is as line.clear() left *)
(* it, the bytes of the line are consumed; after UnexpectedEof it holds the *)
(* part of the last line that was read; an interrupted read has consumed    *)
(* nothing.                                                                  *)
read_loop(a, read) ==
    LET logged == [a EXCEPT !.reads = Append(@, read)]
    IN CASE read.kind = "line" ->
               [logged EXCEPT !.line_count = @ + 1, !.yielded = @ \o parse_line(read.text)]
         [] read.kind = "eof" -> terminate(logged)
         [] read.kind = "invalid_data" -> [logged EXCEPT !.yielded = @ \o recover_partial("")]
         [] read.kind = "unexpected_eof" ->
               terminate([logged EXCEPT !.yielded = @ \o parse_final(read.text)])
         [] read.kind = "interrupted" -> logged
         [] read.kind = "other" -> terminate(logged)

(* The consumer drops the stream: the generator is dropped where it stands, *)
(* and with it the Child, which was spawned without kill_on_drop             *)
drop_stream(a) == [a EXCEPT !.state = "dropped"]

----------------------------------------------------------------------------
(* SystemRunner (runners/system.rs): on every tick of its interval it reads  *)
(* /proc and emits Events of source "system".  Times are in units of 10 ms,  *)
(* the resolution of /proc/uptime; utime and stime are in clock ticks of     *)
(* 1/USER_HZ s, which is the same unit.  A u64 difference a - b is the       *)
(* record [wrapped, value]: the number value when a >= b, and 2^64 - value   *)
(* when a < b and the build has no overflow checks.                          *)

Pids == {10, 11}
TargetPid == CHOOSE pid \in Pids : \A other \in Pids : pid <= other
CommPattern == "claud"
IntervalUnits == 100

(* An entry of /proc, and the absence of one *)
Proc(ppid, comm, utime, stime) ==
    [alive |-> TRUE, ppid |-> ppid, comm |-> comm, utime |-> utime, stime |-> stime,
     rss_pages |-> 5, vsz_pages |-> 9, threads |-> 2]
NoProc ==
    [alive |-> FALSE, ppid |-> 0, comm |-> "", utime |-> 0, stime |-> 0,
     rss_pages |-> 0, vsz_pages |-> 0, threads |-> 0]

(* SystemConfig; pid and comm are Options *)
SystemConfig(pid, comm, include_children) ==
    [interval_secs |-> 1, pid |-> pid, comm |-> comm, include_children |-> include_children]

process_exists(proc, pid) == pid \in DOMAIN proc /\ proc[pid].alive

(* find_pids_by_name: the entries of read_dir("/proc"), in the order dir it lists them in *)
find_pids_by_name(proc, pattern, dir) ==
    SelectSeq(dir, LAMBDA pid : proc[pid].alive /\ contains(trim(proc[pid].comm), pattern))

find_target_pids(config, proc, dir) ==
    IF config.pid # <<>>
    THEN IF process_exists(proc, config.pid[1]) THEN <<config.pid[1]>> ELSE <<>>
    ELSE IF config.comm # <<>>
         THEN find_pids_by_name(proc, config.comm[1], dir)
         ELSE <<>>

(* get_all_children: the entries whose ppid is parent_pid, each followed by its own *)
RECURSIVE get_children_from(_, _, _, _)
get_children_from(proc, parent_pid, dir, i) ==
    IF i > Len(dir) THEN <<>>
    ELSE IF proc[dir[i]].alive /\ proc[dir[i]].ppid = parent_pid
         THEN <<dir[i]>> \o get_children_from(proc, dir[i], dir, 1)
                         \o get_children_from(proc, parent_pid, dir, i + 1)
         ELSE get_children_from(proc, parent_pid, dir, i + 1)

get_all_children(proc, parent_pid, dir) == get_children_from(proc, parent_pid, dir, 1)

(* get_process_memory: rss and vsz in kB, from the pages of statm *)
get_process_memory(proc, pid) == <<proc[pid].rss_pages * 4, proc[pid].vsz_pages * 4>>

(* get_process_cpu_stats: the sample carries the uptime at the moment it is read *)
get_process_cpu_stats(proc, pid, now) ==
    [utime |-> proc[pid].utime, stime |-> proc[pid].stime, timestamp |-> now]

(* a - b in u64 *)
sub_u64(a, b) ==
    IF a >= b THEN [wrapped |-> FALSE, value |-> a - b]
              ELSE [wrapped |-> TRUE, value |-> b - a]

(* The f64 zero, and (cpu_delta / user_hz / time_delta) * 100.0 *)
ZeroPercent == [kind |-> "zero"]
Ratio(cpu_delta, time_delta) == [kind |-> "ratio", cpu_delta |-> cpu_delta, time_delta |-> time_delta]

(* calculate_cpu_percentage: the percentage, the map afterwards, and whether *)
(* a subtraction panicked (a build with overflow checks)                     *)
calculate_cpu_percentage_KeepFirst(pid, current, previous_stats, timestamp, overflow_checks) ==
    IF previous_stats[pid] # <<>>
    THEN LET prev == previous_stats[pid][1]
             time_delta == sub_u64(timestamp, prev.timestamp)
             cpu_delta == sub_u64(current.utime + current.stime, prev.utime + prev.stime)
         IN  IF overflow_checks /\ (time_delta.wrapped \/ cpu_delta.wrapped)
             THEN [panicked |-> TRUE, cpu_percent |-> ZeroPercent,
                   previous_stats |-> previous_stats,
                   time_delta |-> <<time_delta>>, cpu_delta |-> <<cpu_delta>>]
             ELSE [panicked |-> FALSE,
                   cpu_percent |-> IF time_delta.wrapped \/ time_delta.value > 0
                                   THEN Ratio(cpu_delta, time_delta)
                                   ELSE ZeroPercent,
                   previous_stats |-> previous_stats,
                   time_delta |-> <<time_delta>>, cpu_delta |-> <<cpu_delta>>]
    ELSE [panicked |-> FALSE, cpu_percent |-> ZeroPercent,
          previous_stats |-> [previous_stats EXCEPT ![pid] = <<current>>],
          time_delta |-> <<>>, cpu_delta |-> <<>>]

calculate_cpu_percentage(pid, current, previous_stats, timestamp, overflow_checks) ==
    IF previous_stats[pid] # <<>>
    THEN LET prev == previous_stats[pid][1]
             time_delta == sub_u64(timestamp, prev.timestamp)
             cpu_delta == sub_u64(current.utime + current.stime, prev.utime + prev.stime)
         IN  IF overflow_checks /\ (time_delta.wrapped \/ cpu_delta.wrapped)
             THEN [panicked |-> TRUE, cpu_percent |-> ZeroPercent,
                   previous_stats |-> previous_stats,
                   time_delta |-> <<time_delta>>, cpu_delta |-> <<cpu_delta>>]
             ELSE [panicked |-> FALSE,
                   cpu_percent |-> IF time_delta.wrapped \/ time_delta.value > 0
                                   THEN Ratio(cpu_delta, time_delta)
                                   ELSE ZeroPercent,
                   previous_stats |-> [previous_stats EXCEPT ![pid] = <<current>>],
                   time_delta |-> <<time_delta>>, cpu_delta |-> <<cpu_delta>>]
    ELSE [panicked |-> FALSE, cpu_percent |-> ZeroPercent,
          previous_stats |-> [previous_stats EXCEPT ![pid] = <<current>>],
          time_delta |-> <<>>, cpu_delta |-> <<>>]

(* The loop of collect_process_metrics over all_pids from index i on: the    *)
(* sums so far in acc, the evaluations of calculate_cpu_percentage in evals  *)
RECURSIVE aggregate(_, _, _, _, _, _, _, _)
aggregate(main_pid, all_pids, i, timestamp, proc, now, overflow_checks, acc) ==
    IF i > Len(all_pids) \/ acc.panicked THEN acc
    ELSE LET pid == all_pids[i] IN
         IF ~process_exists(proc, pid)
         THEN aggregate(main_pid, all_pids, i + 1, timestamp, proc, now, overflow_checks, acc)
         ELSE LET memory == get_process_memory(proc, pid)
                  stats == get_process_cpu_stats(proc, pid, now)
                  cpu == calculate_cpu_percentage(pid, stats, acc.previous_stats,
                                                  timestamp, overflow_checks)
                  eval == [pid |-> pid, current |-> stats, timestamp |-> timestamp,
                           before |-> acc.previous_stats[pid],
                           after |-> cpu.previous_stats[pid],
                           panicked |-> cpu.panicked, cpu_percent |-> cpu.cpu_percent,
                           time_delta |-> cpu.time_delta, cpu_delta |-> cpu.cpu_delta]
              IN  aggregate(main_pid, all_pids, i + 1, timestamp, proc, now, overflow_checks,
                      [panicked |-> cpu.panicked,
                       total_rss_kb |-> acc.total_rss_kb + memory[1],
                       total_vsz_kb |-> acc.total_vsz_kb + memory[2],
                       total_cpu_percent |-> IF cpu.panicked THEN acc.total_cpu_percent
                                             ELSE Append(acc.total_cpu_percent, cpu.cpu_percent),
                       thread_count |-> IF pid = main_pid THEN proc[pid].threads
                                                          ELSE acc.thread_count,
                       previous_stats |-> cpu.previous_stats,
                       evals |-> Append(acc.evals, eval)])

(* collect_process_metrics: the Event of main_pid over all_pids.  The sum    *)
(* total_cpu_percent is kept as the list of its addends.                     *)
collect_process_metrics(main_pid, all_pids, timestamp, previous_stats, proc, now, overflow_checks) ==
    LET acc == aggregate(main_pid, all_pids, 1, timestamp, proc, now, overflow_checks,
                   [panicked |-> FALSE, total_rss_kb |-> 0, total_vsz_kb |-> 0,
                    total_cpu_percent |-> <<>>, thread_count |-> 0,
                    previous_stats |-> previous_stats, evals |-> <<>>])
        process_name == IF process_exists(proc, main_pid) THEN trim(proc[main_pid].comm)
                                                          ELSE "unknown"
    IN  [panicked |-> acc.panicked,
         previous_stats |-> acc.previous_stats,
         evals |-> acc.evals,
         event |-> [timestamp |-> timestamp, source |-> "system", pid |-> main_pid,
                    comm |-> process_name,
                    data |-> [type |-> "system_metrics", pid |-> main_pid,
                              comm |-> process_name, timestamp |-> timestamp,
                              cpu_percent |-> acc.total_cpu_percent,
                              rss_kb |-> acc.total_rss_kb, vsz_kb |-> acc.total_vsz_kb,
                              threads |-> acc.thread_count,
                              children |-> Len(all_pids) - 1,
                              pids |-> all_pids]]]

(* get_system_wide_metrics *)
get_system_wide_metrics(timestamp) ==
    [timestamp |-> timestamp, source |-> "system", pid |-> 0, comm |-> "system",
     data |-> [type |-> "system_wide", timestamp |-> timestamp]]

(* The stream of create_system_event_stream before its first tick: the       *)
(* config, the build, /proc and the uptime, previous_stats, and what the     *)
(* last tick resolved, evaluated and yielded                                 *)
SystemStream(config, overflow_checks, proc) ==
    [config |-> config, overflow_checks |-> overflow_checks, proc |-> proc,
     uptime |-> IntervalUnits, previous_stats |-> [pid \in Pids |-> <<>>],
     ticks |-> 0, state |-> "running",
     target_pids |-> <<>>, evals |-> <<>>, yielded |-> <<>>, events |-> 0]

SystemRunner_new == SystemStream(SystemConfig(<<>>, <<>>, TRUE), FALSE, [pid \in Pids |-> NoProc])

(* The body of "for pid in target_pids" from target i on *)
RECURSIVE for_target_pids(_, _, _, _, _)
for_target_pids(s, i, timestamp, dir, now) ==
    IF i > Len(s.target_pids) \/ s.state # "running" THEN s
    ELSE LET pid == s.target_pids[i]
             pids_to_monitor == IF s.config.include_children
                                THEN <<pid>> \o get_all_children(s.proc, pid, dir)
                                ELSE <<pid>>
             r == collect_process_metrics(pid, pids_to_monitor, timestamp, s.previous_stats,
                                          s.proc, now, s.overflow_checks)
         IN  for_target_pids(
                 [s EXCEPT !.previous_stats = r.previous_stats,
                           !.evals = @ \o r.evals,
                           !.state = IF r.panicked THEN "panicked" ELSE @,
                           !.yielded = IF r.panicked THEN @ ELSE Append(@, r.event)],
                 i + 1, timestamp, dir, now)

(* One pass of the loop of create_system_event_stream after interval.tick(): *)
(* /proc is now proc and lists its entries in the order dir; the uptime read *)
(* for the tick is timestamp, the uptime read with the samples is now        *)
system_tick_OneEvent(s, proc, dir, timestamp, now) ==
    LET target_pids == find_target_pids(s.config, proc, dir)
        begun == [s EXCEPT !.proc = proc, !.uptime = now, !.ticks = @ + 1,
                           !.target_pids = IF target_pids = <<>> THEN <<>>
                                             ELSE <<target_pids[1]>>,
                           !.evals = <<>>, !.yielded = <<>>]
        done == IF target_pids = <<>>
                THEN IF s.config.pid # <<>> \/ s.config.comm # <<>>
                     THEN begun
                     ELSE [begun EXCEPT !.yielded = <<get_system_wide_metrics(timestamp)>>]
                ELSE for_target_pids(begun, 1, timestamp, dir, now)
    IN  [done EXCEPT !.events = @ + Len(done.yielded), !.target_pids = target_pids]

system_tick(s, proc, dir, timestamp, now) ==
    LET target_pids == find_target_pids(s.config, proc, dir)
        begun == [s EXCEPT !.proc = proc, !.uptime = now, !.ticks = @ + 1,
                           !.target_pids = target_pids,
                           !.evals = <<>>, !.yielded = <<>>]
        done == IF target_pids = <<>>
                THEN IF s.config.pid # <<>> \/ s.config.comm # <<>>
                     THEN begun
                     ELSE [begun EXCEPT !.yielded = <<get_system_wide_metrics(timestamp)>>]
                ELSE for_target_pids(begun, 1, timestamp, dir, now)
    IN  [done EXCEPT !.events = @ + Len(done.yielded)]

----------------------------------------------------------------------------
(* The analyzer chain of run_raw_ssl: SSEProcessor, HTTPParser, HTTPFilter, *)
(* AuthHeaderRemover.  Every analyzer is a filter_map or map over the       *)
(* stream, so one input Event runs through the whole chain in one step.     *)

RECURSIVE ParserStream(_)
ParserStream(s) ==
    IF s = <<>> THEN <<>> ELSE HTTPParser_process(Head(s)) \o ParserStream(Tail(s))

RECURSIVE FilterStream(_, _)
FilterStream(fs, s) ==
    IF s = <<>> THEN <<>> ELSE HTTPFilter_process(fs, Head(s)) \o FilterStream(fs, Tail(s))

RECURSIVE AuthStream(_)
AuthStream(s) ==
    IF s = <<>> THEN <<>> ELSE AuthHeaderRemover_process(Head(s)) \o AuthStream(Tail(s))

NoStages ==
    [sse |-> [in |-> <<>>, out |-> <<>>, kind |-> "init", key |-> NoneStr, acc |-> NoAcc,
              before |-> [k \in {} |-> NoAcc]],
     http_parser |-> [in |-> <<>>, out |-> <<>>],
     http_filter |-> [in |-> <<>>, out |-> <<>>],
     auth |-> [in |-> <<>>, out |-> <<>>]]

(* Process that hands a new Event to the consumer ahead of the earlier ones *)
Process_Prepend(e) ==
    \E r \in SSEProcessor_process(sse_buffers, e) :
        LET s4 == AuthStream(FilterStream(filters, ParserStream(r.out)))
            n  == Len(input) + 1
        IN /\ sse_buffers' = r.buffers
           /\ input' = Append(input, e)
           /\ output' = [i \in 1..Len(s4) |-> [event |-> s4[i], at |-> n]] \o output
           /\ stages' = [sse |-> [in |-> <<e>>, out |-> r.out, kind |-> r.kind, key |-> r.key,
                                  acc |-> r.acc, before |-> sse_buffers],
                         http_parser |-> [in |-> r.out, out |-> ParserStream(r.out)],
                         http_filter |-> [in |-> ParserStream(r.out),
                                          out |-> FilterStream(filters, ParserStream(r.out))],
                         auth |-> [in |-> FilterStream(filters, ParserStream(r.out)), out |-> s4]]
           /\ http_counters' = HTTPFilter_count(http_counters, ParserStream(r.out),
                                                FilterStream(filters, ParserStream(r.out)))
           /\ HTTP_FILTER_GLOBAL_METRICS' =
                  IF ParserStream(r.out) = <<>> THEN HTTP_FILTER_GLOBAL_METRICS
                  ELSE update_global_metrics(HTTP_FILTER_GLOBAL_METRICS,
                                             http_counters'.total_events_processed,
                                             http_counters'.filtered_events_count,
                                             http_counters'.passed_events_count)
           /\ UNCHANGED filters

Process(e) ==
    \E r \in SSEProcessor_process(sse_buffers, e) :
        LET s1 == r.out
            s2 == ParserStream(s1)
            s3 == FilterStream(filters, s2)
            s4 == AuthStream(s3)
            n  == Len(input) + 1
        IN /\ sse_buffers' = r.buffers
           /\ input' = Append(input, e)
           /\ output' = output \o [i \in 1..Len(s4) |-> [event |-> s4[i], at |-> n]]
           /\ stages' = [sse |-> [in |-> <<e>>, out |-> s1, kind |-> r.kind, key |-> r.key,
                                  acc |-> r.acc, before |-> sse_buffers],
                         http_parser |-> [in |-> s1, out |-> s2],
                         http_filter |-> [in |-> s2, out |-> s3],
                         auth |-> [in |-> s3, out |-> s4]]
           /\ http_counters' = HTTPFilter_count(http_counters, s2, s3)
           /\ HTTP_FILTER_GLOBAL_METRICS' =
                  IF s2 = <<>> THEN HTTP_FILTER_GLOBAL_METRICS
                  ELSE update_global_metrics(HTTP_FILTER_GLOBAL_METRICS,
                                             http_counters'.total_events_processed,
                                             http_counters'.filtered_events_count,
                                             http_counters'.passed_events_count)
           /\ UNCHANGED filters

----------------------------------------------------------------------------
(* Inputs *)

ThePid == 7

Chunk(ts, t, blocks) == SslEvent(ts, ThePid, t, Wrapped(blocks))
RawChunk(ts, t, blocks) == SslEvent(ts, ThePid, t, Unwrapped(blocks))

ProcessEvent(ts) ==
    [timestamp |-> ts, source |-> "process", pid |-> ThePid, comm |-> "claude",
     data |-> [type |-> "process", pid |-> ThePid, command |-> "exec"]]

(* An Event of a test source whose payload has the shape of a parsed request *)
TestEvent(ts) ==
    [timestamp |-> ts, source |-> "test", pid |-> ThePid, comm |-> "test",
     data |-> [message_type |-> "request", method |-> "GET", path |-> "/v1/foo",
               headers |-> [k \in {"authorization", "host"} |->
                               IF k = "host" THEN "api.example.com" ELSE "Bearer x"]]]

(* An Event of a test source that carries an SSL-shaped payload: the head of *)
(* a streaming response with its first chunk                                 *)
TaggedEvent(ts) ==
    [timestamp |-> ts, source |-> "test", pid |-> ThePid, comm |-> "test",
     data |-> [pid |-> ThePid, tid |-> 1, function |-> "READ/RECV", has_data |-> TRUE,
               data |-> <<StatusLine(200, "OK"),
                          HeaderLine("Content-Type", "text/event-stream"), EmptyLine>>
                        \o Wrapped(<<Start("m1"), Stop>>)]]

HandshakeEvent(ts) ==
    [timestamp |-> ts, source |-> "ssl", pid |-> ThePid, comm |-> "claude",
     data |-> [pid |-> ThePid, tid |-> 1, function |-> "HANDSHAKE", has_data |-> FALSE,
               data |-> <<>>]]

RequestEvent(ts) ==
    SslEvent(ts, ThePid, 1,
        <<RequestLine("GET", "/v1/foo"), HeaderLine("Host", "api.example.com"),
          HeaderLine("Authorization", "Bearer x"), EmptyLine, EmptyLine>>)

ResponseEvent(ts, code) ==
    SslEvent(ts, ThePid, 1,
        <<StatusLine(code, "Not Found"), HeaderLine("Content-Type", "text/plain"),
          EmptyLine, EmptyLine>>)

(* The head of a streaming response together with its first chunk *)
StreamHeadEvent(ts) ==
    SslEvent(ts, ThePid, 1,
        <<StatusLine(200, "OK"), HeaderLine("Content-Type", "text/event-stream"),
          HeaderLine("Transfer-Encoding", "chunked"), EmptyLine>> \o Wrapped(<<Start("m2")>>))

BlockLists ==
    { <<Start("m1")>>, <<Start(NoneStr)>>,
      <<TextDelta(<<"Hel">>)>>, <<TextDelta(<<"lo">>)>>, <<TextDelta(<<BigTok>>)>>,
      <<JsonDelta(<<BigTok>>)>>, <<ThinkingDelta(<<"Hel">>)>>,
      <<Stop>>, <<Plain("error")>>, <<Ping>>, <<MessageDelta>>,
      <<Plain("content_block_start"), Plain("content_block_stop")>>,
      <<Plain("vendor_event")>>,
      <<Block(NoneStr, "raw", NoneStr, NoneStr, <<>>, <<>>, <<>>), Comment>> }

Events(ts) ==
    {Chunk(ts, 1, bs) : bs \in BlockLists}
    \cup {Chunk(ts, 2, <<TextDelta(<<"lo">>)>>), RawChunk(ts, 1, <<Start("m1")>>),
          ProcessEvent(ts), TestEvent(ts), TaggedEvent(ts), HandshakeEvent(ts), RequestEvent(ts),
          ResponseEvent(ts, 404), StreamHeadEvent(ts)}

(* HTTPFilter::with_patterns: the compiled expressions *)
HTTPFilter_with_patterns(patterns) == [i \in 1..Len(patterns) |-> parse(patterns[i])]

FilterConfigs ==
    { HTTPFilter_with_patterns(<<>>),
      HTTPFilter_with_patterns(<<"request.method=GET | response.status_code=404">>) }

TimeOf(n) == n * TickStep

(* The chunks of one streamed message, whole or split, and a second thread *)
StreamBlockLists ==
    { <<Start("m1")>>, <<TextDelta(<<"Hel">>)>>, <<TextDelta(<<"lo">>)>>, <<Stop>>,
      <<Start("m1"), TextDelta(<<"Hel">>)>>, <<TextDelta(<<"lo">>), Stop>>,
      <<TextDelta(<<BigTok>>)>> }

StreamEvents(ts) ==
    {Chunk(ts, 1, bs) : bs \in StreamBlockLists}
    \cup {Chunk(ts, 2, <<TextDelta(<<"lo">>), Stop>>)}

(* A chain of analyzers as a runner builds it (process_through_analyzers):  *)
(* every analyzer wraps the stream of the one before it in a map or a       *)
(* filter_map, so an Event pulled from the source runs through the closures *)
(* in declaration order.  An item is an Event with the position its source  *)
(* Event had in the source stream.                                           *)

AnalyzerNames ==
    {"timestamp_normalizer", "ssl_filter", "http_parser", "http_filter",
     "auth_header_remover", "file_logger", "output"}

ChainSslPatterns == <<"function=HANDSHAKE">>
ChainHttpPatterns == <<"response.status_code=404">>
ChainLineBytes == 31

(* OutputAnalyzer::process for one Event: the Events it emits *)
OutputAnalyzer_process(event) == <<event>>

(* The chain after its analyzers are built, before the first Event *)
AnalyzerChain(analyzers) ==
    [analyzers |-> analyzers, source |-> <<>>,
     streams |-> [k \in 1..Len(analyzers) |-> <<>>],
     cell |-> <<>>,
     ssl_filter |-> SSLFilter_with_patterns(ChainSslPatterns),
     http_filter |-> HTTPFilter_with_patterns(ChainHttpPatterns),
     logger |-> FileLogger_new(<<>>), dir |-> FreshDisk, printed |-> <<>>]

(* The closure of one analyzer applied to one Event: what it emits and the  *)
(* chain with the state of that analyzer afterwards                          *)
Closure(name, p, event, boot) ==
    CASE name = "timestamp_normalizer" ->
            [out |-> TimestampNormalizer_process(boot, event),
             p |-> [p EXCEPT !.cell = IF @ = <<>> THEN <<boot>> ELSE @]]
      [] name = "ssl_filter" ->
            LET r == SSLFilter_process(p.ssl_filter, event)
            IN [out |-> r.out, p |-> [p EXCEPT !.ssl_filter = r.filter]]
      [] name = "http_parser" -> [out |-> HTTPParser_process(event), p |-> p]
      [] name = "http_filter" -> [out |-> HTTPFilter_process(p.http_filter, event), p |-> p]
      [] name = "auth_header_remover" -> [out |-> AuthHeaderRemover_process(event), p |-> p]
      [] name = "file_logger" ->
            LET r == FileLogger_process(p.logger, p.dir, event, ChainLineBytes, {}, 0)
            IN [out |-> r.out, p |-> [p EXCEPT !.logger = r.logger, !.dir = r.dir]]
      [] name = "output" ->
            [out |-> OutputAnalyzer_process(event),
             p |-> [p EXCEPT !.printed = Append(@, event)]]

(* StreamExt::map / filter_map of one analyzer over the items it is handed *)
RECURSIVE Feed(_, _, _, _)
Feed(name, p, items, boot) ==
    IF items = <<>> THEN [out |-> <<>>, p |-> p]
    ELSE LET head == Closure(name, p, Head(items).event, boot)
             rest == Feed(name, head.p, Tail(items), boot)
         IN [out |-> [i \in 1..Len(head.out) |->
                         [origin |-> Head(items).origin, event |-> head.out[i]]] \o rest.out,
             p |-> rest.p]

(* process_through_analyzers with the analyzers taken from the last to the first *)
RECURSIVE process_through_analyzers_Reversed(_, _, _, _)
process_through_analyzers_Reversed(p, k, items, boot) ==
    IF k > Len(p.analyzers) THEN p
    ELSE LET r == Feed(p.analyzers[Len(p.analyzers) + 1 - k], p, items, boot)
         IN process_through_analyzers_Reversed([r.p EXCEPT !.streams[k] = @ \o r.out],
                                               k + 1, r.out, boot)

(* AnalyzerProcessor::process_through_analyzers, from analyzer k on, for    *)
(* the items that reach analyzer k: the chain with what each analyzer       *)
(* emitted appended to the stream after it                                   *)
RECURSIVE process_through_analyzers(_, _, _, _)
process_through_analyzers(p, k, items, boot) ==
    IF k > Len(p.analyzers) THEN p
    ELSE LET r == Feed(p.analyzers[k], p, items, boot)
         IN process_through_analyzers([r.p EXCEPT !.streams[k] = @ \o r.out],
                                      k + 1, r.out, boot)

NoCalc == [function |-> "none"]

(* The state after the analyzers are built, with an SSLFilter of the given patterns *)
InitWith(ssl_patterns) ==
    /\ sse_buffers = [k \in {} |-> NoAcc]
    /\ input = <<>>
    /\ output = <<>>
    /\ stages = NoStages
    /\ filters \in FilterConfigs
    /\ http_counters = FilterMetrics(0, 0, 0)
    /\ HTTP_FILTER_GLOBAL_METRICS = <<FilterMetrics(0, 0, 0)>>
    /\ ssl_filter = SSLFilter_with_patterns(ssl_patterns)
    /\ SSL_FILTER_GLOBAL_METRICS = <<>>
    /\ BOOT_TIME_SECS = <<>>
    /\ front = <<>>
    /\ lifecycle = [runner |-> "running", printed |-> <<>>, exited |-> FALSE]
    /\ calc = NoCalc

(* The FileLogger, its directory and the AgentRunner, not used by the chain *)
InitUnits(rotation_config, runners, analyzers) ==
    /\ file_logger = FileLogger_new(rotation_config)
    /\ disk = FreshDisk
    /\ agent = AgentRunner_new(runners, analyzers)

(* The chain of process_through_analyzers, not used by the other units *)
InitRest(chain) ==
    /\ pipeline = AnalyzerChain(chain)
    /\ adapter = get_json_stream
    /\ system = SystemRunner_new

Init == InitWith(<<>>) /\ InitUnits(<<>>, <<>>, <<>>) /\ InitRest(<<>>)

Next ==
    /\ Len(input) < MaxChunks
    /\ \E e \in Events(TimeOf(Len(input) + 1)) : Process(e)
    /\ UNCHANGED <<front_vars, lifecycle, calc, unit_vars>>

Spec == Init /\ [][Next]_vars

NextStream ==
    /\ Len(input) < MaxStream
    /\ \E e \in StreamEvents(TimeOf(Len(input) + 1)) : Process(e)
    /\ UNCHANGED <<front_vars, lifecycle, calc, unit_vars>>

SpecStream == Init /\ [][NextStream]_vars

----------------------------------------------------------------------------
(* The whole chain of run_raw_ssl: TimestampNormalizer and SSLFilter ahead  *)
(* of the analyzers of Process; the end of the runner; SIGINT.  The model   *)
(* always holds both filters: with an empty pattern list a filter forwards  *)
(* every Event, as the chain without it does.                               *)

MaxCli == 3             \* Events the runner produces per run of specification SpecCli

SslPatternLists ==
    { <<>>, <<"tid<2 & function=HANDSHAKE | tid>=2">> }

(* An Event of a test source with the SSL payload of thread 2 *)
TaggedThread2(ts) == [TaggedEvent(ts) EXCEPT !.data.tid = 2]

CliEvents(ts) ==
    { Chunk(ts, 1, <<TextDelta(<<"Hel">>)>>), Chunk(ts, 1, <<Stop>>), Chunk(ts, 1, <<Ping>>),
      Chunk(ts, 2, <<TextDelta(<<"lo">>)>>), HandshakeEvent(ts), RequestEvent(ts),
      ResponseEvent(ts, 404), ProcessEvent(ts), TaggedThread2(ts) }

CliProcess(raw) ==
    /\ lifecycle.runner = "running"
    /\ ~lifecycle.exited
    /\ \E boot \in get_boot_time_secs(BOOT_TIME_SECS) :
        LET s1 == TimestampNormalizer_process(boot, raw)
            r == SSLFilter_process(ssl_filter, s1[1])
        IN /\ BOOT_TIME_SECS' = IF BOOT_TIME_SECS = <<>> THEN <<boot>> ELSE BOOT_TIME_SECS
           /\ ssl_filter' = r.filter
           /\ front' = Append(front, [pulled |-> raw, normalized |-> s1[1],
                                      passed |-> r.out # <<>>])
           /\ IF r.out = <<>> THEN UNCHANGED chain_vars ELSE Process(r.out[1])
           /\ UNCHANGED <<SSL_FILTER_GLOBAL_METRICS, lifecycle, calc, unit_vars>>

(* The stream ends, run_raw_ssl returns and drops the runner with its analyzers *)
RunnerDrop ==
    /\ lifecycle.runner = "running"
    /\ ~lifecycle.exited
    /\ SSL_FILTER_GLOBAL_METRICS' = SSLFilter_drop(SSL_FILTER_GLOBAL_METRICS, ssl_filter)
    /\ lifecycle' = [lifecycle EXCEPT !.runner = "dropped"]
    /\ UNCHANGED <<chain_vars, ssl_filter, BOOT_TIME_SECS, front, calc, unit_vars>>

(* The task of setup_signal_handler after sigint.recv() *)
Sigint ==
    /\ ~lifecycle.exited
    /\ lifecycle' = [lifecycle EXCEPT
                        !.printed = <<print_global_http_filter_metrics(HTTP_FILTER_GLOBAL_METRICS),
                                      print_global_ssl_filter_metrics(SSL_FILTER_GLOBAL_METRICS)>>,
                        !.exited = TRUE]
    /\ UNCHANGED <<chain_vars, front_vars, calc, unit_vars>>

InitCli ==
    /\ \E ssl_patterns \in SslPatternLists : InitWith(ssl_patterns)
    /\ InitUnits(<<>>, <<>>, <<>>)
    /\ InitRest(<<>>)

NextCli ==
    \/ /\ ssl_filter.total_events_processed < MaxCli
       /\ \E e \in CliEvents(TimeOf(ssl_filter.total_events_processed + 1)) : CliProcess(e)
    \/ RunnerDrop
    \/ Sigint

SpecCli == InitCli /\ [][NextCli]_vars

----------------------------------------------------------------------------
(* TimestampNormalizer on its own: a runner with one TimestampNormalizer,   *)
(* or with two of them in a row, as add_analyzer permits                    *)

MaxNormalizers == 2     \* TimestampNormalizers in a row

(* Timestamps of the runner, in thousands of ns: 250 s, the last thousand   *)
(* before 251 s, 251 s, 500 s                                                *)
ClockTimes == {TimeOf(1), TimeOf(1) + 999999, TimeOf(1) + 1000000, TimeOf(2)}

ClockEvents == UNION {{Chunk(ts, 1, <<Stop>>), ProcessEvent(ts), RequestEvent(ts)} : ts \in ClockTimes}

(* The Events behind n TimestampNormalizers, each with its own call of       *)
(* get_boot_time_secs: the cell after the calls, the values returned, the    *)
(* Event after every stage                                                   *)
RECURSIVE Normalizers(_, _, _)
Normalizers(n, cell, event) ==
    IF n = 0 THEN {[cell |-> cell, boots |-> <<>>, events |-> <<event>>]}
    ELSE UNION {
            { [cell |-> IF r.cell = <<>> THEN <<boot>> ELSE r.cell,
               boots |-> Append(r.boots, boot),
               events |-> r.events
                          \o TimestampNormalizer_process(boot, r.events[Len(r.events)])]
              : boot \in get_boot_time_secs(r.cell) }
            : r \in Normalizers(n - 1, cell, event) }

Normalize(raw, n) ==
    \E r \in Normalizers(n, BOOT_TIME_SECS, raw) :
        /\ BOOT_TIME_SECS' = r.cell
        /\ calc' = [function |-> "normalize", event |-> raw, normalizers |-> n,
                    boots |-> r.boots, events |-> r.events,
                    previous |-> IF calc.function = "normalize"
                                 THEN <<[event |-> calc.event, once |-> calc.events[2]]>>
                                 ELSE <<>>]
        /\ UNCHANGED <<chain_vars, ssl_filter, SSL_FILTER_GLOBAL_METRICS, front, lifecycle, unit_vars>>

NextClock == \E raw \in ClockEvents, n \in 1..MaxNormalizers : Normalize(raw, n)

SpecClock == Init /\ [][NextClock]_vars

----------------------------------------------------------------------------
(* The filter expression languages on their own: a run builds an SSLFilter, *)
(* or an HTTPFilter, from one expression and gives it one Event             *)

SslPayloads ==
    { [data |-> "chunked data here", function |-> "READ/RECV", len |-> 5, tid |-> 2,
       latency_ms |-> 3, is_handshake |-> FALSE, truncated |-> TRUE],
      [function |-> "HANDSHAKE", len |-> 0, tid |-> 1, latency_ms |-> 12,
       is_handshake |-> TRUE],
      [data |-> "0\r\n\r\n", function |-> "READ/RECV", len |-> 5],
      [pid |-> ThePid] }

HttpPayloads ==
    { [message_type |-> "request", method |-> "GET", path |-> "/v1/foo?beta=true",
       headers |-> [k \in {"host"} |-> "api.example.com"], body |-> NoneStr],
      [message_type |-> "request", method |-> "POST", path |-> "/v1/messages",
       headers |-> [k \in {"host"} |-> "api.example.com"], body |-> "{\"stream\":true}"],
      [message_type |-> "response", status_code |-> 404, status_text |-> "Not Found",
       headers |-> [k \in {"content-type"} |-> "text/plain"], body |-> NoneStr],
      [message_type |-> "response", status_code |-> 200, status_text |-> "OK",
       headers |-> [k \in {"content-type"} |-> "text/event-stream"], body |-> NoneStr],
      [message_type |-> "request"],
      [message_type |-> "response"] }

SslAtoms ==
    { "function=READ/RECV", "function!=READ/RECV", "data~chunked", "data=0\\r\\n\\r\\n",
      "data=", "comm=", "len=5", "len!=5", "len<10", "tid>=2", "latency_ms=3", "latency_ms!=3",
      "is_handshake=true", "is_handshake!=true", "is_handshake=false",
      "truncated=true", "truncated!=true", "truncated=false" }

HttpAtoms ==
    { "request.method=GET", "request.path_prefix=/v1", "response.status_code=404",
      "response.status_code=200" }

HttpOperatorTexts ==
    { "response.status_code>=400", "response.status_code!=200", "response.status_code<=200",
      "request.path~foo", "request.path=", "request.body=", "request.host=",
      "response.status_text=", "response.server=", "response.status_code=0" }

(* The texts e, (e & e), (e | x) for the atoms e and two texts x *)
Compound(atoms, others) ==
    atoms
    \cup {"(" \o e \o " & " \o e \o ")" : e \in atoms}
    \cup {"(" \o e \o " | " \o x \o ")" : e \in atoms, x \in others}

SslTexts == Compound(SslAtoms, {"len>100", ""})

HttpTexts ==
    Compound(HttpAtoms, {"response.status_code=500", ""})
    \cup HttpOperatorTexts
    \cup {a \o " | " \o b : a, b \in HttpAtoms}
    \cup {a \o " | " \o b \o " & " \o c : a, b, c \in HttpAtoms}
    \cup {a \o " & " \o b \o " | " \o c : a, b, c \in HttpAtoms}

EvaluateSsl(text, data) ==
    LET f == SSLFilter_with_patterns(<<text>>)
        event == [timestamp |-> TimeOf(1), source |-> "ssl", pid |-> ThePid,
                  comm |-> "claude", data |-> data]
    IN /\ calc = NoCalc
       /\ calc' = [function |-> "ssl_filter", expression |-> text, data |-> data,
                   parsed |-> f.filters[1],
                   verdict |-> ssl_evaluate_node(f.filters[1], data),
                   out |-> SSLFilter_process(f, event).out]
       /\ UNCHANGED <<chain_vars, front_vars, lifecycle, unit_vars>>

EvaluateHttp(text, data) ==
    LET fs == HTTPFilter_with_patterns(<<text>>)
        event == [timestamp |-> TimeOf(1), source |-> "http_parser", pid |-> ThePid,
                  comm |-> "claude", data |-> data]
    IN /\ calc = NoCalc
       /\ calc' = [function |-> "http_filter", expression |-> text, data |-> data,
                   parsed |-> fs[1],
                   verdict |-> evaluate_node(fs[1], data),
                   out |-> HTTPFilter_process(fs, event)]
       /\ UNCHANGED <<chain_vars, front_vars, lifecycle, unit_vars>>

NextFilter ==
    \/ \E text \in SslTexts, data \in SslPayloads : EvaluateSsl(text, data)
    \/ \E text \in HttpTexts, data \in HttpPayloads : EvaluateHttp(text, data)

SpecFilter == Init /\ [][NextFilter]_vars

----------------------------------------------------------------------------
(* AuthHeaderRemover alone, on one Event: the payloads of its tests under   *)
(* every set of header names, with and without message_type                 *)

HeaderNames == {"Authorization", "authorization", "X-API-KEY", "Content-Type", "Cookie", "host"}

HeaderMaps == {[k \in ks |-> "value of " \o k] : ks \in SUBSET HeaderNames}

AuthPayloads ==
    {[message_type |-> "request", method |-> "GET", path |-> "/api/test", headers |-> h] :
        h \in HeaderMaps}
    \cup {[method |-> "GET", path |-> "/api/test", headers |-> h] : h \in HeaderMaps}
    \cup {[message_type |-> "request", method |-> "GET", path |-> "/api/test"],
          [type |-> "process", pid |-> ThePid, command |-> "test"]}

AuthEvents ==
    {[timestamp |-> TimeOf(1), source |-> src, pid |-> ThePid, comm |-> src, data |-> d] :
        src \in {"http_parser", "process"}, d \in AuthPayloads}

Redact(event) ==
    /\ calc = NoCalc
    /\ calc' = [function |-> "auth_header_remover", event |-> event,
                once |-> AuthHeaderRemover_process(event),
                twice |-> AuthStream(AuthHeaderRemover_process(event))]
    /\ UNCHANGED <<chain_vars, front_vars, lifecycle, unit_vars>>

NextAuth == \E event \in AuthEvents : Redact(event)

SpecAuth == Init /\ [][NextAuth]_vars

----------------------------------------------------------------------------
(* FileLogger alone.  The n-th Event of the stream carries timestamp n; the *)
(* length of its JSON line is an input (Event::to_json is outside the       *)
(* analyzer).  SpecLog has no failing system call, SpecLogFaults lets one   *)
(* system call fail per Event.                                               *)

MaxLog == 20            \* Events per run of specification SpecLog
MaxPlainLog == 6        \* Events per run of SpecLog for a logger without rotation
MaxFaultLog == 5        \* Events per run of specification SpecLogFaults

LineSizes == {31, 60}

RotationConfigs ==
    { <<>>,
      <<LogRotationConfig(50, 2, 1)>>,
      <<LogRotationConfig(62, 3, 1)>>,
      <<LogRotationConfig(50, 1, 2)>> }

LogEvent(n) ==
    [timestamp |-> n, source |-> "test", pid |-> ThePid, comm |-> "test",
     data |-> [message |-> "test event", value |-> 42]]

(* The number of Events the logger has been handed *)
Arrivals == IF calc = NoCalc THEN 0 ELSE calc.n

Log(bytes, faults) ==
    LET n == Arrivals + 1
        r == FileLogger_process(file_logger, disk, LogEvent(n), bytes, faults, n + 1)
    IN /\ file_logger' = r.logger
       /\ disk' = r.dir
       /\ calc' = [function |-> "file_logger", n |-> n, event |-> LogEvent(n),
                   bytes |-> bytes, faults |-> faults, out |-> r.out,
                   checked |-> r.checked, rotated |-> r.rotated, before |-> disk]
       /\ UNCHANGED <<chain_vars, front_vars, lifecycle, agent, other_units>>

InitLog ==
    /\ InitWith(<<>>)
    /\ filters = HTTPFilter_with_patterns(<<>>)
    /\ \E rotation_config \in RotationConfigs : InitUnits(rotation_config, <<>>, <<>>)
    /\ InitRest(<<>>)

NextLog ==
    /\ Arrivals < (IF file_logger.rotation_config = <<>> THEN MaxPlainLog ELSE MaxLog)
    /\ \E bytes \in LineSizes : Log(bytes, {})

SpecLog == InitLog /\ [][NextLog]_vars

NextLogFaults ==
    /\ Arrivals < MaxFaultLog
    /\ \E bytes \in LineSizes, fault \in Syscalls \cup {"none"} :
          Log(bytes, {fault} \cap Syscalls)

SpecLogFaults == InitLog /\ [][NextLogFaults]_vars

----------------------------------------------------------------------------
(* AgentRunner alone: run(), then the consumer polls the merged stream.     *)
(* select_all takes the next Event from any child stream that has one.      *)

MaxRunners == 3         \* child runners of the AgentRunner
MaxChildEvents == 2     \* Events of the stream of a "fake" child

ChildEvents(i, kind, n) ==
    [k \in 1..n |-> [timestamp |-> k, source |-> kind, pid |-> i, comm |-> "claude",
                     data |-> [seq |-> k]]]

RunnerLists ==
    UNION { { [i \in 1..n |->
                 Runner(kinds[i],
                        ChildEvents(i, kinds[i],
                                    IF kinds[i] = "fake" THEN MaxChildEvents ELSE 1))] :
              kinds \in [1..n -> {"fake", "ssl", "failing"}] } : n \in 0..MaxRunners }

AnalyzerLists == { <<>>, <<"output">>, <<"output", "failing">> }

Run ==
    /\ agent.result = "none"
    /\ \E survives \in BOOLEAN : agent' = AgentRunner_run(agent, survives)
    /\ UNCHANGED <<chain_vars, front_vars, lifecycle, calc, file_logger, disk, other_units>>

(* The merged stream yields the next Event of child i *)
PollItem(i) ==
    /\ agent.result = "ok" /\ ~agent.ended
    /\ agent.children[i].state = "streaming"
    /\ agent.children[i].pending # <<>>
    /\ agent' = [agent EXCEPT !.merged = Append(@, Head(agent.children[i].pending)),
                              !.children[i].pending = Tail(@)]
    /\ UNCHANGED <<chain_vars, front_vars, lifecycle, calc, file_logger, disk, other_units>>

(* The stream of child i yields None; the binary adapter then kills its child process *)
PollEnd(i) ==
    /\ agent.result = "ok" /\ ~agent.ended
    /\ agent.children[i].state = "streaming"
    /\ agent.children[i].pending = <<>>
    /\ agent' = [agent EXCEPT !.children[i].state = "ended",
                              !.children[i].process =
                                  IF @ = "running" THEN "killed" ELSE @]
    /\ UNCHANGED <<chain_vars, front_vars, lifecycle, calc, file_logger, disk, other_units>>

(* The merged stream yields None *)
PollNone ==
    /\ agent.result = "ok" /\ ~agent.ended
    /\ select_all_exhausted(agent.children)
    /\ agent' = [agent EXCEPT !.ended = TRUE]
    /\ UNCHANGED <<chain_vars, front_vars, lifecycle, calc, file_logger, disk, other_units>>

InitAgent ==
    /\ InitWith(<<>>)
    /\ filters = HTTPFilter_with_patterns(<<>>)
    /\ \E runners \in RunnerLists, analyzers \in AnalyzerLists :
          InitUnits(<<>>, runners, analyzers)
    /\ InitRest(<<>>)

NextAgent ==
    \/ Run
    \/ \E i \in 1..Len(agent.runners) : PollItem(i)
    \/ \E i \in 1..Len(agent.runners) : PollEnd(i)
    \/ PollNone

SpecAgent == InitAgent /\ [][NextAgent]_vars

----------------------------------------------------------------------------
(* A chain of analyzers alone: every list of up to MaxChain different       *)
(* analyzers, fed Event by Event.                                            *)

MaxChain == 3           \* analyzers of a chain
MaxChainEvents == 3     \* Events per run of specification SpecChain

RECURSIVE ChainsOf(_)
ChainsOf(n) ==
    IF n = 0 THEN {<<>>}
    ELSE ChainsOf(n - 1) \cup
         {Append(c, a) : c \in {c \in ChainsOf(n - 1) : Len(c) = n - 1},
                         a \in AnalyzerNames}

Chains == {c \in ChainsOf(MaxChain) : \A i, j \in 1..Len(c) : c[i] = c[j] => i = j}

ChainEvents(ts) ==
    {RequestEvent(ts), ResponseEvent(ts, 404), HandshakeEvent(ts), ProcessEvent(ts),
     TestEvent(ts)}

(* The consumer pulls the next Event through the chain *)
Pull(event, boot) ==
    LET item == [origin |-> Len(pipeline.source) + 1, event |-> event]
    IN /\ pipeline' = process_through_analyzers(
                          [pipeline EXCEPT !.source = Append(@, item)], 1, <<item>>, boot)
       /\ UNCHANGED <<chain_vars, front_vars, lifecycle, calc, file_logger, disk, agent, adapter, system>>

InitChain ==
    /\ InitWith(<<>>)
    /\ filters = HTTPFilter_with_patterns(<<>>)
    /\ InitUnits(<<>>, <<>>, <<>>)
    /\ \E chain \in Chains : InitRest(chain)

NextChain ==
    /\ Len(pipeline.source) < MaxChainEvents
    /\ \E event \in ChainEvents(TimeOf(Len(pipeline.source) + 1)),
          boot \in get_boot_time_secs(pipeline.cell) : Pull(event, boot)

SpecChain == InitChain /\ [][NextChain]_vars

----------------------------------------------------------------------------
(* The binary source adapter alone: the consumer polls the stream, and      *)
(* read_line returns a line, end of file or an error; or the consumer drops *)
(* the stream.                                                               *)

MaxReads == 3           \* returns of read_line per run of specification SpecAdapter

StdoutLines ==
    { "{\"a\":1}\n", "  {\"a\":{\"b\":\"r\"},\"e\":20}  \r\n", "{}\n", "{\"a\":1}",
      "{\"a\":1\n", "{bad}\n", "{\"a\":1}}\n", "error: boo\n", "\n", "  \n", "\"a\"\n", "5}\n" }

ReadResults ==
    {[kind |-> "line", text |-> l] : l \in StdoutLines}
    \cup {[kind |-> "unexpected_eof", text |-> l] : l \in {"", "{\"a\":1}", "{\"a\":"}}
    \cup {[kind |-> k, text |-> ""] : k \in {"eof", "invalid_data", "interrupted", "other"}}

ReadLine(read) ==
    /\ adapter.state = "open"
    /\ Len(adapter.reads) < MaxReads
    /\ adapter' = read_loop(adapter, read)
    /\ UNCHANGED <<chain_vars, front_vars, lifecycle, calc, file_logger, disk, agent, pipeline, system>>

DropStream ==
    /\ adapter.state = "open"
    /\ adapter' = drop_stream(adapter)
    /\ UNCHANGED <<chain_vars, front_vars, lifecycle, calc, file_logger, disk, agent, pipeline, system>>

NextAdapter ==
    \/ \E read \in ReadResults : ReadLine(read)
    \/ DropStream

SpecAdapter == Init /\ [][NextAdapter]_vars

----------------------------------------------------------------------------
(* SystemRunner alone: between two ticks processes run, exit and start, and *)
(* a pid that became free may be given to a new process.                     *)

MaxTicks == 2           \* ticks per run of specification SpecSystem

SystemConfigs ==
    {SystemConfig(<<TargetPid>>, <<>>, c) : c \in BOOLEAN}
    \cup {SystemConfig(<<>>, <<CommPattern>>, c) : c \in BOOLEAN}
    \cup {SystemConfig(<<>>, <<>>, TRUE)}

(* /proc when the runner starts *)
InitProcs ==
    { [pid \in Pids |-> NoProc],
      (10 :> Proc(1, "claude\n", 4, 2)) @@ (11 :> NoProc),
      (10 :> Proc(1, "claude\n", 4, 2)) @@ (11 :> Proc(10, "claude\n", 1, 1)),
      (10 :> Proc(1, "claude\n", 4, 2)) @@ (11 :> Proc(1, "node\n", 1, 1)) }

(* What one interval makes of an entry of /proc: the process ran on, it      *)
(* exited, or a new process has the pid                                      *)
Ran(p) == [p EXCEPT !.utime = @ + 3, !.stime = @ + 1]

NextEntries(pid, p) ==
    IF pid = TargetPid
    THEN IF p.alive THEN {Ran(p), NoProc, Proc(1, "claude\n", 1, 0)}
                    ELSE {NoProc, Proc(1, "claude\n", 1, 0)}
    ELSE IF p.alive THEN {Ran(p), NoProc}
                    ELSE {NoProc, Proc(TargetPid, "claude\n", 0, 1), Proc(1, "node\n", 0, 1)}

(* The children of a process that is gone belong to init *)
NextProcs(proc) ==
    { [pid \in Pids |->
          IF t[pid].alive /\ t[pid].ppid = TargetPid /\ t[TargetPid] # Ran(proc[TargetPid])
          THEN [t[pid] EXCEPT !.ppid = 1] ELSE t[pid]] :
      t \in {t \in [Pids -> {NoProc} \cup UNION {NextEntries(pid, proc[pid]) : pid \in Pids}] :
                 \A pid \in Pids : t[pid] \in NextEntries(pid, proc[pid])} }

(* The orders read_dir may list the entries in *)
Dirs == {<<10, 11>>, <<11, 10>>}

(* A tick: the uptime has advanced by the interval, and by late more units   *)
(* when the samples are read                                                 *)
Tick(proc, dir, late) ==
    /\ system.state = "running"
    /\ system.ticks < MaxTicks
    /\ LET timestamp == system.uptime + IntervalUnits
       IN  system' = system_tick(system, proc, dir, timestamp, timestamp + late)
    /\ UNCHANGED <<chain_vars, front_vars, lifecycle, calc, file_logger, disk, agent,
                   pipeline, adapter>>

InitSystem ==
    /\ InitWith(<<>>)
    /\ filters = HTTPFilter_with_patterns(<<>>)
    /\ InitUnits(<<>>, <<>>, <<>>)
    /\ pipeline = AnalyzerChain(<<>>)
    /\ adapter = get_json_stream
    /\ \E config \in SystemConfigs, overflow_checks \in BOOLEAN, proc \in InitProcs :
          system = SystemStream(config, overflow_checks, proc)

NextSystem ==
    \E proc \in NextProcs(system.proc), dir \in Dirs, late \in 0..1 : Tick(proc, dir, late)

SpecSystem == InitSystem /\ [][NextSystem]_vars

----------------------------------------------------------------------------
(* HTTPParser alone, on one Event: SSL payloads with and without a request  *)
(* line or a status line, with header lines in mixed case and with padding, *)
(* payloads that are no HTTP, and Events without a data string              *)

FirstLines ==
    {<<RequestLine("GET", "/v1/foo")>>, <<RequestLine("POST", "/v1/messages")>>,
     <<RequestLine("BREW", "/pot")>>, <<StatusLine(200, "OK")>>,
     <<StatusLine(404, "Not Found")>>, <<HexLine(26)>>, <<>>}

HeaderBlocks ==
    {<<>>, <<HeaderLine("Host", " api.example.com ")>>,
     <<HeaderLine("Content-Type", "text/plain"), HeaderLine(" X-API-KEY ", "k\t")>>,
     <<HeaderLine("Cookie", "a=b")>>,
     <<HeaderLine("Host", "first"), HeaderLine("host", "second")>>,
     <<HeaderLine("Authorization", "Bearer x"), HexLine(26)>>}

Bodies == {<<>>, <<EmptyLine, EmptyLine>>, <<EmptyLine, HeaderLine("Host", "in the body")>>}

ParserEvents ==
    {SslEvent(TimeOf(1), ThePid, 1, lines) :
        lines \in {first \o headers \o body :
                      first \in FirstLines, headers \in HeaderBlocks, body \in Bodies} \ {<<>>}}
    \cup {HandshakeEvent(TimeOf(1)), ProcessEvent(TimeOf(1)), TestEvent(TimeOf(1)),
          TaggedEvent(TimeOf(1))}

ParseOne(event) ==
    /\ calc = NoCalc
    /\ calc' = [function |-> "http_parser", event |-> event, out |-> HTTPParser_process(event)]
    /\ UNCHANGED <<chain_vars, front_vars, lifecycle, unit_vars>>

NextParser == \E event \in ParserEvents : ParseOne(event)

SpecParser == Init /\ [][NextParser]_vars

----------------------------------------------------------------------------
(* The condition parser of SSLFilter alone: the texts key OP value for every *)
(* operator, with values that hold operator characters and escapes          *)

ConditionKeys == {"data", "function", " len "}
ConditionValues == {"5", "READ/RECV", "a!=b", "a>=b", "x=y", "a~b", " 0\\r\\n "}

ParseCondition(key, op, value) ==
    /\ calc = NoCalc
    /\ calc' = [function |-> "ssl_parse_condition", key |-> key, op |-> op, value |-> value,
                parsed |-> ssl_parse_condition(key \o op \o value)]
    /\ UNCHANGED <<chain_vars, front_vars, lifecycle, unit_vars>>

NextCondition ==
    \E key \in ConditionKeys, k \in 1..Len(operators), value \in ConditionValues :
        ParseCondition(key, operators[k], value)

SpecCondition == Init /\ [][NextCondition]_vars

----------------------------------------------------------------------------
(* Properties of the SSEProcessor step *)

SseIn == stages.sse.in[1]
SseAcc == stages.sse.acc
SseAppended == stages.sse.kind \in {"append", "emit", "discard"}
SseFinalized == stages.sse.kind \in {"emit", "discard"}

HasType(events, types) == \E i \in 1..Len(events) : events[i].event \in types

(* C4: after a chunk was appended, its accumulator was finalized (taken out of *)
(* the map) in that step if and only if it holds a message_stop or error event *)
(* or its text or json buffer is longer than 50000; otherwise it stays in the  *)
(* map as appended, so other event types under the limit never finalize it.    *)
C4_Completion ==
    SseAppended =>
        LET complete == \/ HasType(SseAcc.events, {"message_stop", "error"})
                        \/ StrLen(SseAcc.accumulated_text) > 50000
                        \/ StrLen(SseAcc.accumulated_json) > 50000
        IN /\ SseFinalized <=> complete
           /\ complete <=> stages.sse.key \notin DOMAIN sse_buffers
           /\ ~complete => sse_buffers[stages.sse.key] = SseAcc

C4_Witness ==
    /\ SseFinalized
    /\ ~HasType(SseAcc.events, {"message_stop", "error"})
    /\ StrLen(SseAcc.accumulated_text) > 50000
    /\ HasType(SseAcc.events, {"message_start"})

(* C5: when an accumulator completes, a merged Event is emitted if and only if *)
(* its text or json buffer is non-empty, or it holds a content_block_delta, or *)
(* it holds a message_start and more than three events that are not all of the *)
(* metadata types; otherwise nothing is emitted.                               *)
C5_EmissionFilter ==
    SseFinalized =>
        LET evs == SseAcc.events
            meaningful ==
                \/ SseAcc.accumulated_text # <<>>
                \/ SseAcc.accumulated_json # <<>>
                \/ HasType(evs, {"content_block_delta"})
                \/ /\ HasType(evs, {"message_start"})
                   /\ Len(evs) > 3
                   /\ ~ \A i \in 1..Len(evs) : evs[i].event \in
                          {"message_stop", "message_delta", "ping",
                           "content_block_stop", "content_block_start"}
        IN /\ meaningful => /\ Len(stages.sse.out) = 1
                            /\ stages.sse.out[1].source = "sse_processor"
                            /\ stages.sse.out[1].data.sse_events = evs
           /\ ~meaningful => stages.sse.out = <<>>

C5_Witness ==
    /\ stages.sse.kind = "emit"
    /\ SseAcc.accumulated_text = <<>>
    /\ SseAcc.accumulated_json = <<>>
    /\ ~HasType(SseAcc.events, {"content_block_delta"})

(* C6: after every processed Event the map holds no accumulator with a         *)
(* message_stop or error event or with a buffer longer than 50000: a complete  *)
(* accumulator leaves the map in the step that completes it, emitted or not.   *)
C6_NoCompleteAccumulator ==
    \A k \in DOMAIN sse_buffers :
        /\ ~HasType(sse_buffers[k].events, {"message_stop", "error"})
        /\ StrLen(sse_buffers[k].accumulated_text) <= 50000
        /\ StrLen(sse_buffers[k].accumulated_json) <= 50000

C6_Witness ==
    /\ stages.sse.kind = "discard"
    /\ stages.sse.key \in DOMAIN stages.sse.before
    /\ stages.sse.key \notin DOMAIN sse_buffers

(* C8: an Event whose source is not "ssl" passes SSEProcessor and HTTPParser   *)
(* exactly once and unchanged, and leaves the accumulator map unchanged.       *)
C8_NonSslIdentity ==
    /\ \A i \in 1..Len(stages.sse.in) :
          stages.sse.in[i].source # "ssl" =>
              /\ stages.sse.out = <<stages.sse.in[i]>>
              /\ sse_buffers = stages.sse.before
    /\ \A i \in 1..Len(stages.http_parser.in) :
          stages.http_parser.in[i].source # "ssl" =>
              stages.http_parser.out = <<stages.http_parser.in[i]>>

C8_Witness ==
    /\ Len(stages.sse.in) = 1
    /\ SseIn.source = "test"
    /\ HasDataStr(SseIn)
    /\ is_sse_data(SseIn.data.data) /\ is_http_data(SseIn.data.data)
    /\ stages.http_parser.out = <<SseIn>>
    /\ DOMAIN sse_buffers # {}

(* C9: an Event whose source is not "http_parser" is never dropped by           *)
(* HTTPFilter, whatever the filter expressions, and leaves HTTPFilter and       *)
(* AuthHeaderRemover unchanged in every field.                                  *)
C9_NonHttpIdentity ==
    /\ \A i \in 1..Len(stages.http_filter.in) :
          stages.http_filter.in[i].source # "http_parser" =>
              stages.http_filter.out = <<stages.http_filter.in[i]>>
    /\ \A i \in 1..Len(stages.auth.in) :
          stages.auth.in[i].source # "http_parser" =>
              stages.auth.out = <<stages.auth.in[i]>>

C9_Witness ==
    /\ filters # <<>>
    /\ Len(stages.http_filter.in) = 1
    /\ stages.http_filter.in[1].source = "test"
    /\ \E i \in 1..Len(filters) : evaluate_node(filters[i], stages.http_filter.in[1].data)
    /\ "authorization" \in DOMAIN stages.http_filter.in[1].data.headers
    /\ stages.auth.out = stages.http_filter.in

----------------------------------------------------------------------------
(* Properties of a whole stream *)

(* The SSE events that the chunks of thread t carried so far, in arrival order *)
RECURSIVE EventsOfTid(_, _)
EventsOfTid(t, n) ==
    IF n = 0 THEN <<>>
    ELSE EventsOfTid(t, n - 1) \o
         (IF input[n].source = "ssl" /\ Tid(input[n]) = t
          THEN parse_sse_events(input[n].data.data) ELSE <<>>)

ChunksOfTid(t) == {n \in 1..Len(input) : input[n].source = "ssl" /\ Tid(input[n]) = t}

OutputOfTid(t) == SelectSeq(output, LAMBDA o : o.event.data.tid = t)

(* message_start with an id, then text deltas, then message_stop *)
IsMessage(evs) ==
    /\ Len(evs) >= 2
    /\ evs[1].event = "message_start" /\ evs[1].msgid # NoneStr
    /\ evs[Len(evs)].event = "message_stop"
    /\ \A i \in 2..(Len(evs) - 1) :
          evs[i].event = "content_block_delta" /\ evs[i].dtype = "text_delta"

RECURSIVE TextOf(_)
TextOf(evs) == IF evs = <<>> THEN <<>> ELSE Head(evs).text \o TextOf(Tail(evs))

Max(S) == CHOOSE x \in S : \A y \in S : y <= x

OneMergedEvent(t, evs) ==
    /\ Len(OutputOfTid(t)) = 1
    /\ LET o == OutputOfTid(t)[1] IN
          /\ o.at = Max(ChunksOfTid(t))
          /\ o.event.source = "sse_processor"
          /\ o.event.data.text_content = TextOf(evs)
          /\ o.event.data.message_id = evs[1].msgid
          /\ o.event.data.event_count = Len(evs)
          /\ o.event.data.has_message_start

(* C1 as stated: message_start, k >= 0 text deltas, message_stop of one thread *)
(* yield exactly one merged Event, at the chunk of message_stop.               *)
C1_AnyMessage ==
    \A t \in {1, 2} :
        IsMessage(EventsOfTid(t, Len(input))) => OneMergedEvent(t, EventsOfTid(t, Len(input)))

(* C1, amended: for chunks in chunked encoding of one (pid, tid) that carry, in *)
(* arrival order, message_start with message.id = m, k >= 1 text deltas t1..tk  *)
(* of at most 50000 bytes in total, then message_stop, exactly one Event leaves *)
(* for that thread: the merged Event, at the chunk of message_stop, with text = *)
(* t1 ++ ... ++ tk, message_id = m, event count k + 2, has_message_start.       *)
C1_HappyPath ==
    \A t \in {1, 2} :
        LET evs == EventsOfTid(t, Len(input)) IN
        (IsMessage(evs) /\ Len(evs) >= 3 /\ StrLen(TextOf(evs)) <= 50000)
            => OneMergedEvent(t, evs)

C1_Witness ==
    /\ Cardinality(ChunksOfTid(1)) >= 3
    /\ IsMessage(EventsOfTid(1, Len(input)))
    /\ TextOf(EventsOfTid(1, Len(input))) = <<"Hel", "lo">>
    /\ OneMergedEvent(1, EventsOfTid(1, Len(input)))

(* C7: the Events leave in the order of the inputs they were emitted at; a      *)
(* merged Event leaves at the step of the chunk that completed it (its end_time *)
(* is that chunk's timestamp and the chunk carries the completing event or the  *)
(* size limit is passed), and two merged Events of one connection key leave in  *)
(* the order of their completing chunks.                                        *)
C7_Ordering ==
    \A i \in 1..Len(output) :
        /\ \A j \in (i + 1)..Len(output) : output[i].at < output[j].at
        /\ output[i].event.source = "sse_processor" =>
              LET d == output[i].event.data
                  chunk == input[output[i].at]
              IN /\ d.end_time = chunk.timestamp
                 /\ chunk.source = "ssl" /\ Tid(chunk) = d.tid
                 /\ \/ HasType(parse_sse_events(chunk.data.data), {"message_stop", "error"})
                    \/ StrLen(d.text_content) > 50000
                 /\ \A j \in (i + 1)..Len(output) :
                       (/\ output[j].event.source = "sse_processor"
                        /\ output[j].event.data.connection_id = d.connection_id)
                           => d.end_time < output[j].event.data.end_time

C7_Witness ==
    \E i, j \in 1..Len(output) :
        /\ i < j
        /\ output[i].event.source = "sse_processor"
        /\ output[j].event.source = "sse_processor"
        /\ output[i].event.data.connection_id = output[j].event.data.connection_id

----------------------------------------------------------------------------
(* Statements that the code does not satisfy *)

NoHexLine(lines) == \A i \in 1..Len(lines) : lines[i].kind # "hex"

(* C2: a chunk without chunk-size lines yields the same parsed SSE events, and *)
(* is accumulated in the same way, as the same content in chunked encoding.    *)
C2_UnwrappedLikeWrapped ==
    \A i \in 1..Len(stages.sse.in) :
        LET e == stages.sse.in[i]
            wrapped == [e EXCEPT !.data.data = Wrapped(BlocksOf(e.data.data))]
        IN (/\ e.source = "ssl" /\ HasDataStr(e)
            /\ is_sse_data(e.data.data) /\ NoHexLine(e.data.data))
           => /\ parse_sse_events(e.data.data) = parse_sse_events(wrapped.data.data)
              /\ \E r \in SSEProcessor_process(stages.sse.before, wrapped) :
                    r.buffers = sse_buffers /\ r.kind = stages.sse.kind

(* C3: a chunk of only ping and message_delta events is dropped, with the map  *)
(* unchanged, if and only if no accumulator exists for the key it resolves to, *)
(* an open accumulator of the same pid:tid included; otherwise its events are  *)
(* appended to that accumulator.                                               *)
C3_MetadataSuppression ==
    \A i \in 1..Len(stages.sse.in) :
        LET e == stages.sse.in[i]
            evs == parse_sse_events(e.data.data)
            resolved == FinalConnectionIds(stages.sse.before, e, evs)
            exists == \E k \in resolved : k \in DOMAIN stages.sse.before
            dropped == /\ stages.sse.kind = "skip"
                       /\ stages.sse.out = <<>>
                       /\ sse_buffers = stages.sse.before
        IN (/\ e.source = "ssl" /\ HasDataStr(e) /\ is_sse_data(e.data.data)
            /\ evs # <<>>
            /\ \A j \in 1..Len(evs) : evs[j].event \in {"ping", "message_delta"})
           => /\ dropped <=> ~exists
              /\ exists => /\ SseAppended
                           /\ stages.sse.key \in resolved
                           /\ SubSeq(SseAcc.events, Len(SseAcc.events) - Len(evs) + 1,
                                     Len(SseAcc.events)) = evs

(* C10: no analyzer emits an Event with a timestamp below that of the Event it *)
(* received; the merged Event of SSEProcessor is not below its completing      *)
(* chunk.                                                                      *)
C10_TimestampsNeverDecrease ==
    \A st \in {"sse", "http_parser", "http_filter", "auth"} :
        \A i \in 1..Len(stages[st].out) :
            stages[st].out[i].timestamp >= stages[st].in[1].timestamp

----------------------------------------------------------------------------
(* Properties of the chain with TimestampNormalizer and SSLFilter *)

(* The Events of the runner that SSLFilter forwarded, normalized, in order *)
RECURSIVE Forwarded(_)
Forwarded(log) ==
    IF log = <<>> THEN <<>>
    ELSE (IF Head(log).passed THEN <<Head(log).normalized>> ELSE <<>>) \o Forwarded(Tail(log))

DroppedCount(log) == Cardinality({i \in 1..Len(log) : ~log[i].passed})

IsFallbackChunk(e) ==
    /\ e.source = "ssl" /\ HasDataStr(e) /\ is_sse_data(e.data.data)
    /\ parse_sse_events(e.data.data) # <<>>
    /\ extract_message_id(parse_sse_events(e.data.data)) = NoneStr

(* C11: behind TimestampNormalizer, the fallback connection key of the       *)
(* SSEProcessor is the same for two chunks of one (pid, tid) only if the     *)
(* chunks were captured in the same 10-minute window of the boot clock.      *)
C11_TenMinuteBuckets ==
    \A i, j \in 1..Len(front) :
        LET a == front[i].normalized
            b == front[j].normalized
        IN (/\ front[i].passed /\ front[j].passed
            /\ IsFallbackChunk(a) /\ IsFallbackChunk(b)
            /\ Pid(a) = Pid(b) /\ Tid(a) = Tid(b)
            /\ generate_connection_id(a, parse_sse_events(a.data.data))
                 = generate_connection_id(b, parse_sse_events(b.data.data)))
           => front[i].pulled.timestamp \div WindowTicks
                = front[j].pulled.timestamp \div WindowTicks

(* C14: SSLFilter drops an Event if and only if its source is "ssl", the    *)
(* filter list is not empty and one of its expressions is true of the data; *)
(* every other Event goes on unchanged; total = dropped + passed, and        *)
(* dropped counts the Events removed.                                        *)
C14_SslFilter ==
    /\ \A i \in 1..Len(front) :
          ~front[i].passed <=>
              /\ front[i].normalized.source = "ssl"
              /\ ssl_filter.filters # <<>>
              /\ \E k \in 1..Len(ssl_filter.filters) :
                    ssl_evaluate_node(ssl_filter.filters[k], front[i].normalized.data)
    /\ input = Forwarded(front)
    /\ ssl_filter.total_events_processed = Len(front)
    /\ ssl_filter.filtered_events_count = DroppedCount(front)
    /\ ssl_filter.total_events_processed
         = ssl_filter.filtered_events_count + ssl_filter.passed_events_count

C14_Witness ==
    /\ ssl_filter.filters # <<>>
    /\ \E i, j, k \in 1..Len(front) :
          /\ ~front[i].passed
          /\ front[j].passed /\ front[j].pulled.source = "ssl"
          /\ front[k].passed /\ front[k].pulled.source = "test"
          /\ \E n \in 1..Len(ssl_filter.filters) :
                ssl_evaluate_node(ssl_filter.filters[n], front[k].pulled.data)

(* C15: what the SIGINT handler prints accounts for the Events the filters  *)
(* have processed: the printed metrics of the SSL filter are its counters   *)
(* at that moment, and likewise for the HTTP filter.                        *)
C15_SigintMetrics ==
    lifecycle.exited =>
        /\ (filters # <<>> /\ http_counters.total_events_processed > 0)
              => lifecycle.printed[1].metrics = <<http_counters>>
        /\ (ssl_filter.filters # <<>> /\ ssl_filter.total_events_processed > 0)
              => lifecycle.printed[2].metrics =
                    <<FilterMetrics(ssl_filter.total_events_processed,
                                    ssl_filter.filtered_events_count,
                                    ssl_filter.passed_events_count)>>

----------------------------------------------------------------------------
(* Properties of TimestampNormalizer *)

(* C12: TimestampNormalizer maps the timestamp t of every Event to          *)
(* boot_epoch_seconds * 1000 + t div 1_000_000 (here in thousands: boot      *)
(* epoch seconds plus t div 1000000), with the one boot epoch value of the   *)
(* cell for every conversion; the mapping does not decrease when t grows,    *)
(* and source, pid, comm and data stay as they are.                          *)
C12_Normalizer ==
    calc.function = "normalize" =>
        LET raw == calc.event
            once == calc.events[2]
        IN /\ BOOT_TIME_SECS # <<>>
           /\ once.timestamp = BOOT_TIME_SECS[1] + raw.timestamp \div 1000000
           /\ once.source = raw.source /\ once.pid = raw.pid
           /\ once.comm = raw.comm /\ once.data = raw.data
           /\ \A i \in 1..Len(calc.previous) :
                 /\ calc.previous[i].event.timestamp <= raw.timestamp
                       => calc.previous[i].once.timestamp <= once.timestamp
                 /\ calc.previous[i].event.timestamp >= raw.timestamp
                       => calc.previous[i].once.timestamp >= once.timestamp

C12_Witness ==
    /\ calc.function = "normalize"
    /\ calc.event.timestamp % 1000000 # 0
    /\ calc.previous # <<>>
    /\ calc.previous[1].event.timestamp < calc.event.timestamp
    /\ calc.previous[1].once.timestamp = calc.events[2].timestamp

(* C13 as stated: two TimestampNormalizers in a row add the boot epoch      *)
(* twice, the result is 2 * boot_epoch_seconds * 1000 + t div 1_000_000      *)
(* (the result less one boot epoch is the result of one TimestampNormalizer).*)
C13_DoubleAdd ==
    (calc.function = "normalize" /\ calc.normalizers >= 2) =>
        calc.events[3].timestamp - BOOT_TIME_SECS[1]
            = BOOT_TIME_SECS[1] + calc.event.timestamp \div 1000000

(* C13 amended: the second TimestampNormalizer reads the first result as    *)
(* nanoseconds: the result is boot_epoch_seconds * 1000 +                    *)
(* ((boot_epoch_seconds * 1000 + t div 1_000_000) div 1_000_000).            *)
C13_SecondPass ==
    (calc.function = "normalize" /\ calc.normalizers >= 2) =>
        calc.events[3].timestamp
            = BOOT_TIME_SECS[1]
              + (BOOT_TIME_SECS[1] + calc.event.timestamp \div 1000000) \div 1000000

C13_Witness ==
    /\ calc.function = "normalize"
    /\ calc.normalizers = 2
    /\ calc.events[3].timestamp > calc.events[2].timestamp

----------------------------------------------------------------------------
(* Properties of the filter expression languages *)

IsHttp == calc.function = "http_filter"
IsSsl == calc.function = "ssl_filter"

(* The verdict of the expression text on the payload, in the dialect of calc *)
VerdictOf(text, data) ==
    IF IsHttp THEN evaluate_node(parse(text), data)
    ELSE ssl_evaluate_node(ssl_parse_expression(text), data)

(* C16: HTTPFilter with 'A | B' drops an http_parser Event if and only if A *)
(* or B is true of its payload; a condition whose target is not the          *)
(* payload's message_type is false; 'A | B & C' is A or (B and C).           *)
C16_OrAndPrecedence ==
    IsHttp =>
        LET p == calc.data
            dropped == calc.out = <<>>
            T(x) == evaluate_node(parse(x), p)
        IN /\ \A a, b \in HttpAtoms :
                 calc.expression = a \o " | " \o b => (dropped <=> (T(a) \/ T(b)))
           /\ \A a, b, c \in HttpAtoms :
                 /\ calc.expression = a \o " | " \o b \o " & " \o c
                       => (dropped <=> (T(a) \/ (T(b) /\ T(c))))
                 /\ calc.expression = a \o " & " \o b \o " | " \o c
                       => (dropped <=> ((T(a) /\ T(b)) \/ T(c)))
           /\ \A a \in HttpAtoms :
                 (calc.expression = a /\ calc.parsed.target # StrField(p, "message_type"))
                    => ~dropped

C16_Witness ==
    /\ IsHttp
    /\ calc.out = <<>>
    /\ \E a, b, c \in HttpAtoms :
          /\ calc.expression = a \o " | " \o b \o " & " \o c
          /\ evaluate_node(parse(a), calc.data)
          /\ ~evaluate_node(parse(c), calc.data)

(* C17: in both dialects, when the expression e is true of the payload p,   *)
(* so are '(e & e)' and '(e | x)' for any expression x.                      *)
C17_Absorption ==
    ((IsHttp \/ IsSsl) /\ calc.verdict) =>
        /\ VerdictOf("(" \o calc.expression \o " & " \o calc.expression \o ")", calc.data)
        /\ \A x \in {"", "len>100", "response.status_code=500"} :
              VerdictOf("(" \o calc.expression \o " | " \o x \o ")", calc.data)

(* C18: the conditions 'f=v' and 'f!=v' are never both true of a payload,   *)
(* for string fields, numeric fields, latency_ms, is_handshake and truncated.*)
C18_Exclusive ==
    (IsSsl /\ calc.parsed.node = "Condition" /\ calc.parsed.operator = "exact") =>
        LET e == calc.expression
            eq == find(e, "=")
            unequal == SubSeq(e, 1, eq - 1) \o "!=" \o SubSeq(e, eq + 1, Len(e))
        IN /\ ssl_parse_expression(unequal)
                 = SslCondition(calc.parsed.field, "not_equal", calc.parsed.value)
           /\ ~(calc.verdict /\ ssl_evaluate_node(ssl_parse_expression(unequal), calc.data))

(* C19: HTTPFilter reads the operators as SSLFilter does:                    *)
(* 'response.status_code>=400', 'response.status_code<=200' and              *)
(* 'response.status_code!=200' parse to the operators gte, lte and not_equal *)
(* and compare the status code as a number.                                  *)
C19_SameGrammar ==
    (IsHttp /\ calc.data = [k \in DOMAIN calc.data |-> calc.data[k]]
            /\ StrField(calc.data, "message_type") = "response"
            /\ "status_code" \in DOMAIN calc.data) =>
        /\ calc.expression = "response.status_code>=400" =>
              /\ calc.parsed.operator = ssl_parse_expression(calc.expression).operator
              /\ calc.verdict <=> calc.data.status_code >= 400
        /\ calc.expression = "response.status_code<=200" =>
              /\ calc.parsed.operator = ssl_parse_expression(calc.expression).operator
              /\ calc.verdict <=> calc.data.status_code <= 200
        /\ calc.expression = "response.status_code!=200" =>
              /\ calc.parsed.operator = ssl_parse_expression(calc.expression).operator
              /\ calc.verdict <=> calc.data.status_code # 200

(* The payload key that a condition of HTTPFilter reads is missing *)
HttpFieldMissing(node, data) ==
    LET no(k) == k \notin DOMAIN data \/ data[k] = NoneStr
        noHeader(k) == "headers" \notin DOMAIN data \/ k \notin DOMAIN data.headers
    IN IF node.target = "request"
       THEN CASE node.field \in {"method", "verb"} -> no("method")
              [] node.field \in {"path", "path_exact", "path_prefix", "path_starts_with",
                                 "path_contains", "path_includes"} -> no("path")
              [] node.field \in {"host", "hostname"} -> noHeader("host")
              [] node.field \in {"body", "body_contains"} -> no("body")
              [] OTHER -> no("path")
       ELSE CASE node.field \in {"status_code", "status", "code"} ->
                     "status_code" \notin DOMAIN data
              [] node.field \in {"status_text", "status_message"} -> no("status_text")
              [] node.field \in {"content_type", "content-type"} -> noHeader("content-type")
              [] node.field \in {"body", "body_contains"} -> no("body")
              [] OTHER -> noHeader(node.field)

(* C20: in both dialects a condition on a field that the payload does not   *)
(* have is false, whatever the operator and the expected value.              *)
C20_MissingFieldFalse ==
    /\ (IsSsl /\ calc.parsed.node = "Condition" /\ calc.parsed.field \notin DOMAIN calc.data)
          => ~calc.verdict
    /\ (IsHttp /\ calc.parsed.node = "Condition" /\ HttpFieldMissing(calc.parsed, calc.data))
          => ~calc.verdict

----------------------------------------------------------------------------
(* Properties of AuthHeaderRemover *)

IsAuthHeader(key) == \E a \in auth_headers : to_lowercase(key) = to_lowercase(a)

----------------------------------------------------------------------------
(* Properties of FileLogger *)

IsLog == calc.function = "file_logger"

TheLine == [event |-> calc.event, bytes |-> calc.bytes]

(* The lines of <path>.k, ..., <path>.1, <path>, read in that order *)
RECURSIVE Reading(_, _)
Reading(dir, k) == IF k < 0 THEN <<>> ELSE dir[k].lines \o Reading(dir, k - 1)

(* C22: FileLogger emits exactly the Event it was handed, also when a write, *)
(* a flush, the size check or a step of the rotation fails.                  *)
C22_StreamUnchanged == IsLog => calc.out = <<calc.event>>

C22_Witness ==
    /\ IsLog
    /\ calc.faults = {"write_all"}
    /\ calc.rotated
    /\ disk[0].lines = <<>>
    /\ calc.out = <<calc.event>>

(* C23: with max_file_size = 50, max_files = 2, size_check_interval = 1 and *)
(* 20 Events of more than 30 bytes each, at the end <path> exists and is     *)
(* smaller than 50 bytes, <path>.1 exists and <path>.3 does not.             *)
C23_RotationScenario ==
    (/\ IsLog
     /\ file_logger.rotation_config = <<LogRotationConfig(50, 2, 1)>>
     /\ calc.n = 20) =>
        /\ Exists(disk, 0)
        /\ metadata_len(disk[0].lines) < 50
        /\ Exists(disk, 1)
        /\ ~Exists(disk, 3)

(* C24: the only rotated files that exist are among <path>.1 ..             *)
(* <path>.max_files.                                                         *)
C24_RotatedFilesBounded ==
    \A k \in LogNames \ {0} :
        Exists(disk, k) =>
            /\ file_logger.rotation_config # <<>>
            /\ k <= file_logger.rotation_config[1].max_files

C24_Witness ==
    /\ IsLog
    /\ calc.rotated
    /\ file_logger.rotation_config # <<>>
    /\ Exists(calc.before, file_logger.rotation_config[1].max_files)
    /\ Exists(disk, file_logger.rotation_config[1].max_files)

(* C25: a rotation moves <path>.k to <path>.(k+1), then <path> to <path>.1, *)
(* and opens an empty <path>; without I/O failure the lines of              *)
(* <path>.max_files, ..., <path>.1, <path>, read in that order, are the last *)
(* logged lines in arrival order, each once.                                 *)
C25_AgeOrder ==
    IsLog =>
        LET config == file_logger.rotation_config
            top == IF config = <<>> THEN 0 ELSE config[1].max_files
            read == Reading(disk, top)
        IN /\ \A i \in 1..Len(read) : read[i].event = LogEvent(calc.n - Len(read) + i)
           /\ read # <<>>
           /\ calc.rotated =>
                 /\ \A k \in 1..(top - 1) :
                       Exists(calc.before, k) => disk[k + 1] = calc.before[k]
                 /\ disk[1] = calc.before[0]
                 /\ disk[0].lines = <<TheLine>>
                 /\ disk[0].inode \notin {calc.before[k].inode : k \in LogNames}

C25_Witness ==
    /\ IsLog
    /\ calc.rotated
    /\ file_logger.rotation_config = <<LogRotationConfig(62, 3, 1)>>
    /\ Exists(calc.before, 3)
    /\ Reading(disk, 3)[1].event.timestamp > 1

(* C26: a rotation happens at the n-th Event only if rotation is configured, *)
(* n is a multiple of size_check_interval and <path> is larger than          *)
(* max_file_size before the n-th line is written; a logger without rotation  *)
(* config never has a <path>.1.                                              *)
C26_RotationCondition ==
    IsLog =>
        LET config == file_logger.rotation_config
        IN /\ calc.rotated =>
                 /\ config # <<>>
                 /\ calc.n % config[1].size_check_interval = 0
                 /\ metadata_len(calc.before[0].lines) > config[1].max_file_size
                 /\ \A i \in 1..Len(disk[1].lines) : disk[1].lines[i].event # calc.event
           /\ config # <<>> => file_logger.event_count = calc.n
           /\ config = <<>> => ~Exists(disk, 1)

C26_Witness ==
    /\ IsLog
    /\ calc.rotated
    /\ file_logger.rotation_config = <<LogRotationConfig(50, 1, 2)>>
    /\ calc.n > 4

(* C27: when a rename or an unlink of a rotation fails, the Event is still  *)
(* written to <path>, and after a failed rename of <path> to <path>.1 the    *)
(* lines <path> had are still in <path>.                                     *)
C27_RotationFailure ==
    (/\ IsLog /\ calc.rotated
     /\ calc.faults # {}
     /\ calc.faults \subseteq {"rename_shift", "rename_current", "remove_file"}) =>
        /\ disk[0].lines # <<>>
        /\ disk[0].lines[Len(disk[0].lines)] = TheLine
        /\ "rename_current" \in calc.faults =>
              disk[0].lines = Append(calc.before[0].lines, TheLine)

----------------------------------------------------------------------------
(* Properties of AgentRunner *)

(* The Events of child i in a stream *)
OfChild(stream, i) ==
    LET FromChild(e) == e.pid = i IN SelectSeq(stream, FromChild)

(* C28: run() without child runners returns an error that says that no      *)
(* runners are configured; nothing is started, no global analyzer applied.   *)
C28_NoRunners ==
    (agent.runners = <<>> /\ agent.result # "none") =>
        /\ agent.result = "err"
        /\ contains(agent.error, "No runners configured")
        /\ agent.applied = 0
        /\ agent.merged = <<>> /\ ~agent.ended

C28_Witness ==
    /\ agent.runners = <<>>
    /\ agent.analyzers = <<"output", "failing">>
    /\ agent.result = "err"

(* C29: run() returns an error that contains the original message whenever  *)
(* a child's run() or a global analyzer's process() fails; then there is no  *)
(* Event stream and no child that was started keeps running.                 *)
C29_ErrorPropagation ==
    (agent.runners # <<>> /\ agent.result # "none") =>
        LET child_failed == \E i \in 1..Len(agent.runners) : ~Runner_run(agent.runners[i]).ok
            analyzer_failed ==
                \E i \in 1..Len(agent.analyzers) : ~Analyzer_process(agent.analyzers[i]).ok
        IN /\ (child_failed \/ analyzer_failed) <=> agent.result = "err"
           /\ agent.result = "err" =>
                 /\ contains(agent.error,
                             IF child_failed THEN "Simulated runner failure"
                             ELSE "Simulated analyzer failure")
                 /\ agent.merged = <<>>
                 /\ \A i \in 1..Len(agent.children) :
                       agent.children[i].process # "running"

(* C30: the merged stream has every Event of every child once, the Events   *)
(* of one child in the order of that child, and it ends only when every      *)
(* child stream has ended.                                                   *)
C30_FanIn ==
    agent.result = "ok" =>
        /\ \A i \in 1..Len(agent.runners) :
              OfChild(agent.merged, i) \o agent.children[i].pending = agent.runners[i].events
        /\ \A j \in 1..Len(agent.merged) : agent.merged[j].pid \in 1..Len(agent.runners)
        /\ agent.ended =>
              \A i \in 1..Len(agent.runners) :
                  /\ agent.children[i].state = "ended"
                  /\ OfChild(agent.merged, i) = agent.runners[i].events

C30_Witness ==
    /\ agent.result = "ok" /\ agent.ended
    /\ \E j, k, l \in 1..Len(agent.merged) :
          /\ j < k /\ k < l
          /\ agent.merged[j].pid = 2 /\ agent.merged[k].pid = 1 /\ agent.merged[l].pid = 2

----------------------------------------------------------------------------
(* Properties of a chain of analyzers *)

EventsOf(items) == [i \in 1..Len(items) |-> items[i].event]

(* What analyzer name makes of a whole stream: its map or filter_map *)
StreamOf(name, p, s) ==
    CASE name = "timestamp_normalizer" ->
            [i \in 1..Len(s) |->
                [s[i] EXCEPT !.timestamp = boot_ns_to_epoch_ms(p.cell[1], s[i].timestamp)]]
      [] name = "ssl_filter" ->
            SelectSeq(s, LAMBDA e : ~ssl_should_filter(p.ssl_filter.filters, e))
      [] name = "http_parser" -> ParserStream(s)
      [] name = "http_filter" -> FilterStream(p.http_filter, s)
      [] name = "auth_header_remover" -> AuthStream(s)
      [] name \in {"file_logger", "output"} -> s

(* The stream that analyzer k of the chain is handed *)
StreamBefore(k) == IF k = 1 THEN pipeline.source ELSE pipeline.streams[k - 1]

(* C31: behind every analyzer of a chain the Events are in the order of the *)
(* Events they came from, and the stream behind analyzer k is analyzer k     *)
(* applied to the stream behind analyzer k - 1, the first one to the source. *)
C31_OrderAndComposition ==
    \A k \in 1..Len(pipeline.analyzers) :
        LET out == pipeline.streams[k]
            given == StreamBefore(k)
        IN /\ \A i, j \in 1..Len(out) : i < j => out[i].origin < out[j].origin
           /\ \A i \in 1..Len(out) : \E j \in 1..Len(given) : given[j].origin = out[i].origin
           /\ EventsOf(out) = StreamOf(pipeline.analyzers[k], pipeline, EventsOf(given))

C31_Witness ==
    /\ pipeline.analyzers = <<"ssl_filter", "http_parser", "http_filter">>
    /\ Len(pipeline.source) = 3
    /\ Len(pipeline.streams[1]) = 3
    /\ Len(pipeline.streams[3]) = 2
    /\ pipeline.streams[3][1].origin = 1
    /\ pipeline.streams[3][1].event.source = "http_parser"
    /\ pipeline.streams[3][2].origin = 3
    /\ pipeline.streams[3][2].event.source = "process"

----------------------------------------------------------------------------
(* Properties of the binary source adapter *)

(* C32: when the stream has ended or was dropped, the child was sent a kill *)
(* and its exit was awaited.                                                 *)
C32_KillOnEnd ==
    adapter.state \in {"ended", "dropped"} => adapter.kill_sent /\ adapter.waited

(* A line whose trimmed form begins with an open brace, ends with a closing *)
(* brace and is JSON                                                         *)
IsJsonLine(text) ==
    LET t == trim(text)
    IN /\ Len(t) >= 2 /\ Char(t, 1) = "{" /\ Char(t, Len(t)) = "}"
       /\ from_str(t) # <<>>

RECURSIVE ValuesOf(_)
ValuesOf(reads) ==
    IF reads = <<>> THEN <<>>
    ELSE (IF Head(reads).kind \in {"line", "unexpected_eof"} /\ IsJsonLine(Head(reads).text)
          THEN <<trim(Head(reads).text)>> ELSE <<>>) \o ValuesOf(Tail(reads))

----------------------------------------------------------------------------
(* Properties of SystemRunner *)

(* The evaluations of calculate_cpu_percentage in the last tick that returned *)
Returned == {i \in 1..Len(system.evals) : ~system.evals[i].panicked}

(* The percentage stands for the number 0 *)
IsZeroPercent(p) ==
    \/ p.kind = "zero"
    \/ p.kind = "ratio" /\ ~p.cpu_delta.wrapped /\ p.cpu_delta.value = 0

Targeted == system.config.pid # <<>> \/ system.config.comm # <<>>
ResolvedSet ==
    {system.target_pids[i] : i \in 1..Len(system.target_pids)}
    \cup IF system.config.include_children
         THEN {pid \in Pids : \E i \in 1..Len(system.target_pids) :
                  \E dir \in Dirs : \E j \in 1..Len(get_all_children(system.proc, system.target_pids[i], dir)) :
                      get_all_children(system.proc, system.target_pids[i], dir)[j] = pid}
         ELSE {}
PidsOf(event) == {event.data.pids[i] : i \in 1..Len(event.data.pids)}

C40_NoUnderflow ==
    \A i \in 1..Len(system.evals) :
        LET e == system.evals[i] IN
        e.before # <<>> =>
            /\ e.timestamp >= e.before[1].timestamp
            /\ e.current.utime + e.current.stime >= e.before[1].utime + e.before[1].stime

----------------------------------------------------------------------------
(* Properties of HTTPParser alone *)

UpperCase == {"A", "B", "C", "D", "E", "F", "G", "H", "I", "J", "K", "L", "M",
              "N", "O", "P", "Q", "R", "S", "T", "U", "V", "W", "X", "Y", "Z"}
IsLowerCase(s) == \A i \in 1..Len(s) : Char(s, i) \notin UpperCase
IsTrimmed(s) == Len(s) > 0 => (Char(s, 1) \notin Whitespace /\ Char(s, Len(s)) \notin Whitespace)

(* The header lines of a payload: the header lines behind the first line and *)
(* ahead of the first empty line                                             *)
HeaderLinesOf(lines) ==
    {i \in 2..Len(lines) : /\ lines[i].kind = "header"
                           /\ \A j \in 2..i : lines[j].kind # "empty"}

----------------------------------------------------------------------------
(* Properties of the SSEProcessor map over time *)

(* SSEProcessor::new: the timeout in ms; a timestamp unit is 1/1000 ms *)
timeout_ms == 30000
TimeoutTicks == timeout_ms * 1000

(* C37: a chunk without message_start that finds open accumulators of its    *)
(* "<pid>:<tid>:" prefix is appended to one of them, and to the one that was *)
(* created first, so that the merged Events are a function of the input.     *)
C37_FirstCreatedReused ==
    (/\ SseAppended
     /\ extract_message_id(parse_sse_events(SseIn.data.data)) = NoneStr
     /\ OpenAccumulators(stages.sse.before, SseIn) # {}) =>
        /\ starts_with(stages.sse.key, ConnPrefix(SseIn))
        /\ stages.sse.key \in DOMAIN stages.sse.before
        /\ \A k \in OpenAccumulators(stages.sse.before, SseIn) :
               stages.sse.before[stages.sse.key].start_time <= stages.sse.before[k].start_time

(* C38: an accumulator whose last update lies timeout_ms or more before the  *)
(* Event that was processed last has been finalized: the map does not hold   *)
(* it any more.                                                              *)
C38_TimedOutFinalized ==
    Len(input) > 0 =>
        \A k \in DOMAIN sse_buffers :
            input[Len(input)].timestamp - sse_buffers[k].last_update < TimeoutTicks

----------------------------------------------------------------------------
(* Properties of the condition parser of SSLFilter *)

(* C39: the text key OP value, with OP one of >=, <=, !=, =, >, <, ~, parses  *)
(* to the condition whose field is the key, whose operator is the name of OP *)
(* and whose value is the rest of the text with its escapes processed, also  *)
(* when the value holds operator characters.                                 *)
C39_SplitAtLeftmostOperator ==
    calc.function = "ssl_parse_condition" =>
        calc.parsed = SslCondition(trim(calc.key), OperatorName(calc.op),
                                   process_escape_sequences(trim(calc.value)))

====
